---- MODULE Spec2Model ----
(***************************************************************************)
(* Gift card issuance on the "orders/paid" webhook.                        *)
(*                                                                         *)
(* The repository holds two versions of processGiftCardOrder:              *)
(*   "db" - app/services/giftcard.server.ts: trigger variants and settings *)
(*          are database rows, every created card gets a GiftCardRecord    *)
(*          row, and the order gets the created_codes metafield;           *)
(*   "mf" - unnamed/part_002: settings are a shop metafield, the only      *)
(*          record is the order's created_codes metafield (plus the note). *)
(* Both are driven by the action of app/routes/webhooks.orders.paid.tsx.   *)
(* Every await of the code is one step of a delivery, so that deliveries   *)
(* of the same order can interleave at exactly the points the code yields. *)
(* Money is counted in thousandths of the currency unit (25.00 = 25000).   *)
(***************************************************************************)
EXTENDS Integers, Sequences, FiniteSets, TLC

VARIABLES
    variant,          \* which version of the pipeline is deployed: "db" | "mf"
    payload,          \* the order-paid event (the same at every delivery)
    giftCardProduct,  \* db.giftCardProduct rows of the shop: set of variantId
    appSettings,      \* db.appSettings rows of the shop: at most one row
    shopMetafield,    \* shop metafield $app:gift_cards/settings
    giftCardRecord,   \* db.giftCardRecord rows
    orderMetafield,   \* order metafield $app:gift_cards/created_codes
    orderNote,        \* the gift card section of the order's note
    giftCards,        \* gift cards that exist at the platform, in creation order
    inv,              \* per delivery: position and locals of the invocation
    response,         \* per delivery: what the webhook action answered
    exit,             \* per delivery: how the invocation ended
    calls,            \* per delivery: giftCardCreate calls made, in order
    writes,           \* per delivery: record / metafield writes made, in order
    overlapped,       \* a delivery arrived while another one was in progress
    recAfter,         \* per delivery: the issuance records when it finished
    trace,            \* per delivery: the steps the invocation has taken, in order
    markLog,          \* per record id: the last printed requests, their session's shop
                      \* and the row before the mark
    settingsReq,      \* per settings request: position and locals of the settings action
    platformOrders,   \* the orders of the shop at the platform, oldest first
    view              \* the orders page as the last loader call returned it

vars == <<variant, payload, giftCardProduct, appSettings, shopMetafield,
          giftCardRecord, orderMetafield, orderNote, giftCards, inv, response,
          exit, calls, writes, overlapped, recAfter, trace, markLog,
          settingsReq, platformOrders, view>>

config == <<variant, payload, giftCardProduct, appSettings, shopMetafield>>
stores == <<giftCardRecord, orderMetafield, orderNote, giftCards>>
adminPages == <<settingsReq, platformOrders, view>>

----------------------------------------------------------------------------
(* Bounds and input sets *)

MaxQty == 2                     \* largest quantity of the first line item
MaxRows == 4                    \* most records (or platform orders) of a short listing
Deliveries == {1, 2}            \* deliveries of the order-paid event
Variants == {"A", "B", "C"}     \* variant_id values: A and B occur in orders
Overheads == {0, 1254, 3000, 5000}   \* printedOverhead values: 0, 1.254, 3.00, 5.00

\* payload.line_items[k].price, a decimal string: "25.00" for A, "2.00" for B
PriceOf(v) == IF v = "A" THEN <<25, 0>> ELSE <<2, 0>>

Max(a, b) == IF a >= b THEN a ELSE b
Min(a, b) == IF a <= b THEN a ELSE b

----------------------------------------------------------------------------
(* Numbers of the settings: JavaScript values and their JSON form *)

\* a finite number (in thousandths), the values NaN, Infinity and -Infinity,
\* and the JSON value null
Num(n) == [kind |-> "number", n |-> n]
NaN == [kind |-> "NaN", n |-> 0]
Infinity == [kind |-> "Infinity", n |-> 0]
NegInfinity == [kind |-> "-Infinity", n |-> 0]
Null == [kind |-> "null", n |-> 0]

\* x || 0: a falsy value (0, NaN, null) gives 0
OrZero(x) ==
    IF x.kind \in {"NaN", "null"} \/ (x.kind = "number" /\ x.n = 0) THEN Num(0) ELSE x

\* Math.max(0, x)
MathMax0(x) ==
    IF x.kind = "number" THEN Num(Max(0, x.n))
    ELSE IF x.kind = "-Infinity" THEN Num(0)
    ELSE IF x.kind = "null" THEN Num(0)
    ELSE x

\* a number after JSON.stringify and JSON.parse: NaN and the infinities are
\* written as null
JsonNumber(x) == IF x.kind = "number" THEN x ELSE Null

----------------------------------------------------------------------------
(* Pure functions of the pipeline *)

\* `gid://shopify/ProductVariant/${item.variant_id}`
VariantGid(variant_id) == <<"gid://shopify/ProductVariant", variant_id>>

\* parseFloat of a price string <<units, hundredths>>
ParseFloat(price) == price[1] * 1000 + price[2] * 10

\* Number.prototype.toFixed(2): the nearest multiple of 0.01 (of 10
\* thousandths).  An exact tie depends on the binary representation of the
\* number; Overheads holds no value that produces one.
ToFixed2(x) == ((x + 5) \div 10) * 10

\* payload.line_items.filter(item => giftCardVariantIds.has(variantGid))
GiftCardLineItemsUnfiltered(line_items, giftCardVariantIds) == line_items
GiftCardLineItems(line_items, giftCardVariantIds) ==
    SelectSeq(line_items, LAMBDA item : VariantGid(item.variant_id) \in giftCardVariantIds)

\* Math.max(0, lineItemPrice - overhead).toFixed(2), with overhead = printedOverhead || 0
GiftCardValueUnfloored(price, printedOverhead) == ToFixed2(ParseFloat(price) - printedOverhead)
GiftCardValue(price, printedOverhead) ==
    ToFixed2(Max(0, ParseFloat(price) - printedOverhead))

\* ...(sendEmail && customerId && { customerId }): is the customer attached
CustomerAttachedAlways(sendEmail, customer) == customer
CustomerAttached(sendEmail, customer) == sendEmail /\ customer

\* the characters String.prototype.toUpperCase changes in a gift card code
UpperCase == [a |-> "A", b |-> "B", c |-> "C", d |-> "D", e |-> "E", f |-> "F"]
toUpperCase(ch) == IF ch \in DOMAIN UpperCase THEN UpperCase[ch] ELSE ch

\* code.match(/.{1,4}/g)?.join(" ") || code: blocks of four characters with a
\* space between them (the empty code has no match and stays as it is)
RECURSIVE Join4(_)
Join4(code) ==
    IF Len(code) <= 4 THEN code
    ELSE SubSeq(code, 1, 4) \o <<" ">> \o Join4(SubSeq(code, 5, Len(code)))

\* formatGiftCardCode: grouped into blocks of four and upper-cased
formatGiftCardCode(code) ==
    [k \in DOMAIN Join4(code) |-> toUpperCase(Join4(code)[k])]

\* createdGiftCards.push(...)
PushUnshift(array, element) == <<element>> \o array
Push(array, element) == Append(array, element)

\* The two nested for loops: the first position (li, i) at or after the given
\* one with i < quantity, or li past the end when no unit is left.
RECURSIVE LoopPositionInclusive(_, _, _)
LoopPositionInclusive(items, li, i) ==
    IF li > Len(items) THEN <<li, 0>>
    ELSE IF i <= items[li].quantity THEN <<li, i>>
    ELSE LoopPositionInclusive(items, li + 1, 0)

RECURSIVE LoopPosition(_, _, _)
LoopPosition(items, li, i) ==
    IF li > Len(items) THEN <<li, 0>>
    ELSE IF i < items[li].quantity THEN <<li, i>>
    ELSE LoopPosition(items, li + 1, 0)

----------------------------------------------------------------------------
(* The order-paid event, the shop and the stores *)

Shop == "shop-1.myshopify.com"

\* another shop that has installed the app, and the sessions of the admin pages
OtherShop == "shop-2.myshopify.com"
Shops == {Shop, OtherShop}

\* giftCardCode of the id-th card the platform creates: lower-case letters and
\* digits, as a sequence of characters
GiftCardCode(id) == <<"a", "b", "1", "2", "c", "d", "3", ToString(id)>>

\* line item k of the order: variant v, quantity q
LineItem(k, v, q) ==
    [id |-> k, admin_graphql_api_id |-> <<"gid://shopify/LineItem", k>>,
     variant_id |-> v, quantity |-> q, price |-> PriceOf(v)]

\* an order of two line items, the first of variant A and the second of variant B
Order(qa, qb, customer) ==
    [admin_graphql_api_id |-> <<"gid://shopify/Order", 1>>,
     customer |-> customer,
     line_items |-> <<LineItem(1, "A", qa), LineItem(2, "B", qb)>>]

\* the variantIds arrays a shop can have stored (no identifier twice)
VariantIdLists ==
    {<<>>, <<VariantGid("A")>>, <<VariantGid("B")>>, <<VariantGid("A"), VariantGid("B")>>,
     <<VariantGid("C")>>}

Range(s) == {s[k] : k \in DOMAIN s}

\* the giftCardRecordId values of the requests of the orders page: the ids the
\* rows of one delivery can have, the id of the other shop's row, and one more
RecordIds == 0..(MaxQty + 1)

\* the new Date() values of the requests
Dates == {1, 2}

\* printedAt of a row that db.giftCardRecord.create wrote: the data of the
\* create names no printedAt, the column is nullable (null is the empty sequence)
PrintedAtDefault == <<>>

\* no markPrinted or unmarkPrinted request has reached the record yet
NoRequest == [intent |-> "none", before |-> {}, shop |-> "none"]

\* an order without the created_codes metafield
NoMetafield == [present |-> FALSE, value |-> <<>>]

\* the value getShopSettings returns when the shop metafield is absent
DefaultSettingsNoEmail ==
    [variantIds |-> <<>>, sendEmailNotification |-> FALSE, printedOverhead |-> Num(0)]
DefaultSettings ==
    [variantIds |-> <<>>, sendEmailNotification |-> TRUE, printedOverhead |-> Num(0)]

\* a shop without the settings metafield
NoSettings == [present |-> FALSE, value |-> DefaultSettings]

\* the settings requests that can be in progress at the same time
SettingsRequests == {1, 2}

\* the fields of the form a settings request submits (a field the intent does
\* not use is empty)
NoFormData == [variantIds |-> <<>>, sendEmailNotification |-> FALSE, printedOverhead |-> ""]

\* a settings request that has not been submitted
IdleRequest ==
    [pc |-> "idle", intent |-> "none", formData |-> NoFormData, settings |-> DefaultSettings]

\* the orders page before any loader call
NoView == [loader |-> "none", shop |-> "none", orders |-> <<>>, hasNextPage |-> FALSE,
           page |-> 0, cursor |-> 0, shown |-> <<>>]

IdleInvocation ==
    [pc |-> "idle", giftCardLineItems |-> <<>>, sendEmail |-> TRUE,
     printedOverhead |-> 0, li |-> 1, i |-> 0, createdGiftCards |-> <<>>,
     giftCard |-> 0]

\* the issuance records of the order: database rows and annotation entries
Records(rows, metafield) == [rows |-> rows, entries |-> metafield.value]

InitOthers ==
    /\ orderMetafield = NoMetafield
    /\ orderNote = <<>>
    /\ giftCards = <<>>
    /\ inv = [d \in Deliveries |-> IdleInvocation]
    /\ response = [d \in Deliveries |-> "none"]
    /\ exit = [d \in Deliveries |-> "none"]
    /\ calls = [d \in Deliveries |-> <<>>]
    /\ writes = [d \in Deliveries |-> <<>>]
    /\ overlapped = FALSE
    /\ recAfter = [d \in Deliveries |-> Records({}, NoMetafield)]
    /\ trace = [d \in Deliveries |-> <<>>]
    /\ markLog = [id \in RecordIds |-> NoRequest]
    /\ settingsReq = [r \in SettingsRequests |-> IdleRequest]
    /\ view = NoView

\* no issuance record exists and nothing has happened
InitStores ==
    /\ giftCardRecord = {}
    /\ platformOrders = <<>>
    /\ InitOthers

\* the configuration of the shop, in the store the deployed version reads
InitConfig(lists, flags, overheads) ==
    /\ variant \in {"db", "mf"}
    /\ IF variant = "db"
       THEN /\ giftCardProduct \in {Range(l) : l \in lists}
            /\ appSettings \in {{}} \cup {{[sendEmailNotification |-> f]} : f \in flags}
            /\ shopMetafield = NoSettings
       ELSE /\ giftCardProduct = {}
            /\ appSettings = {}
            /\ shopMetafield \in {NoSettings} \cup
                 {[present |-> TRUE,
                   value |-> [variantIds |-> l, sendEmailNotification |-> f,
                              printedOverhead |-> Num(o)]] :
                    l \in lists, f \in flags, o \in overheads}

\* Deliveries of one order that may overlap: an order with 1..MaxQty units of A
\* and one unit of B, for a shop whose trigger set holds A.
Init ==
    /\ InitConfig({<<VariantGid("A")>>},
                  {TRUE}, {3000})
    /\ payload \in {Order(qa, 1, TRUE) : qa \in 1..MaxQty}
    /\ InitStores

\* One delivery of any order for any configuration.
InitSingle ==
    /\ InitConfig(VariantIdLists, BOOLEAN, Overheads)
    /\ payload \in {Order(qa, qb, c) : qa \in 0..MaxQty, qb \in 0..1, c \in BOOLEAN}
    /\ InitStores

----------------------------------------------------------------------------
(* Steps shared by the actions *)

\* the response of the webhook action after its try / catch: a throw of
\* processGiftCardOrder is caught and logged, the response is 200 either way
ActionResponseRethrow(threw) == IF threw THEN "error" ELSE "success"
ActionResponse(threw) == "success"

\* where the invocation goes after the unit at (li, i) of items is dealt with:
\* the next unit, the order update when the loops are over and a card was
\* created, or the end
AfterUnitAlwaysUpdates(items, li, i, created, update) ==
    LET p == LoopPosition(items, li, i) IN
    IF p[1] <= Len(items) THEN [pc |-> "create", li |-> p[1], i |-> p[2]]
    ELSE [pc |-> update, li |-> p[1], i |-> p[2]]
AfterUnit(items, li, i, created, update) ==
    LET p == LoopPosition(items, li, i) IN
    IF p[1] <= Len(items) THEN [pc |-> "create", li |-> p[1], i |-> p[2]]
    ELSE IF Len(created) > 0 THEN [pc |-> update, li |-> p[1], i |-> p[2]]
    ELSE [pc |-> "done", li |-> p[1], i |-> p[2]]

\* the catch block of a unit: the error is logged and the loops go on with the
\* next unit
AfterCatchBreaks(items, li, i, created, update) ==
    AfterUnit(items, Len(items) + 1, 0, created, update)
AfterCatch(items, li, i, created, update) ==
    AfterUnit(items, li, i + 1, created, update)

\* the ghost variables of a step of delivery d: the step itself, the answer and
\* the way out when the step ends the invocation, the records as the delivery
\* leaves them
Observe(d, why, threw) ==
    /\ trace' = [trace EXCEPT ![d] = Append(@, inv[d].pc)]
    /\ UNCHANGED <<markLog, adminPages>>
    /\ response' = IF inv'[d].pc = "done"
                   THEN [response EXCEPT ![d] = ActionResponse(threw)]
                   ELSE response
    /\ exit' = IF inv'[d].pc = "done" THEN [exit EXCEPT ![d] = why] ELSE exit
    /\ recAfter' = IF inv'[d].pc = "done"
                   THEN [recAfter EXCEPT ![d] = Records(giftCardRecord', orderMetafield')]
                   ELSE recAfter

\* a call of the invocation throws outside the per-unit try: the error leaves
\* processGiftCardOrder and is caught by the action
Throws(d) ==
    /\ inv' = [inv EXCEPT ![d].pc = "done"]
    /\ Observe(d, "exception", TRUE)

\* the invocation returns from processGiftCardOrder
Returns(d, why) ==
    /\ inv' = [inv EXCEPT ![d].pc = "done"]
    /\ Observe(d, why, FALSE)

Goto(d, label) ==
    /\ inv' = [inv EXCEPT ![d].pc = label]
    /\ Observe(d, "none", FALSE)

----------------------------------------------------------------------------
(* The webhook action: app/routes/webhooks.orders.paid.tsx *)

\* The platform delivers the order-paid event.  Deliveries are numbered in the
\* order of their arrival.
Receive(d) ==
    /\ inv[d].pc = "idle"
    /\ \A e \in Deliveries : e < d => inv[e].pc # "idle"
    /\ inv' = [inv EXCEPT ![d].pc = "authenticate"]
    /\ overlapped' = (overlapped \/ \E e \in Deliveries : inv[e].pc \notin {"idle", "done"})
    /\ UNCHANGED <<config, stores, response, exit, calls, writes, recAfter, trace, markLog,
                   adminPages>>

\* the first await of processGiftCardOrder: the idempotency check in the
\* database version, the admin client in the metafield version
FirstStepSkipsCheck(version) == IF version = "db" THEN "findProducts" ELSE "admin"
FirstStep(version) == IF version = "db" THEN "findFirst" ELSE "admin"

\* const { shop, topic, payload } = await authenticate.webhook(request), before
\* the try block: a throw leaves the action; without a shop the action answers
\* at once; otherwise processGiftCardOrder starts.
Authenticate(d) ==
    /\ inv[d].pc = "authenticate"
    /\ trace' = [trace EXCEPT ![d] = Append(@, "authenticate")]
    /\ \/ /\ inv' = [inv EXCEPT ![d].pc = "done"]
          /\ response' = [response EXCEPT ![d] = "error"]
          /\ exit' = [exit EXCEPT ![d] = "unauthenticated"]
          /\ recAfter' = [recAfter EXCEPT ![d] = Records(giftCardRecord, orderMetafield)]
       \/ /\ inv' = [inv EXCEPT ![d].pc = "done"]
          /\ response' = [response EXCEPT ![d] = "success"]
          /\ exit' = [exit EXCEPT ![d] = "no_shop"]
          /\ recAfter' = [recAfter EXCEPT ![d] = Records(giftCardRecord, orderMetafield)]
       \/ /\ inv' = [inv EXCEPT ![d].pc = FirstStep(variant)]
          /\ UNCHANGED <<response, exit, recAfter>>
    /\ UNCHANGED <<config, stores, calls, writes, overlapped, markLog, adminPages>>

----------------------------------------------------------------------------
(* processGiftCardOrder, database version: app/services/giftcard.server.ts *)

\* db.giftCardRecord.findFirst({ where: { shop, orderId } }) finds a row
ExistingRecordsNever(rows, shop, orderId) == FALSE
ExistingRecords(rows, shop, orderId) ==
    \E r \in rows : r.shop = shop /\ r.orderId = orderId

\* 1. the idempotency check
DbFindFirst(d) ==
    /\ variant = "db"
    /\ inv[d].pc = "findFirst"
    /\ UNCHANGED <<config, stores, calls, writes, overlapped>>
    /\ \/ Throws(d)
       \/ IF ExistingRecords(giftCardRecord, Shop, payload.admin_graphql_api_id)
          THEN Returns(d, "duplicate")
          ELSE Goto(d, "findProducts")

\* 2. and 3. the trigger variants of the shop and the line items that match
DbFindProducts(d) ==
    /\ variant = "db"
    /\ inv[d].pc = "findProducts"
    /\ UNCHANGED <<config, stores, calls, writes, overlapped>>
    /\ \/ Throws(d)
       \/ IF giftCardProduct = {}
          THEN Returns(d, "no_variants")
          ELSE LET items == GiftCardLineItems(payload.line_items, giftCardProduct) IN
               IF Len(items) = 0
               THEN Returns(d, "no_match")
               ELSE /\ inv' = [inv EXCEPT ![d].pc = "findSettings",
                                          ![d].giftCardLineItems = items]
                    /\ Observe(d, "none", FALSE)

\* 4. const sendEmail = settings?.sendEmailNotification ?? true
DbFindSettings(d) ==
    /\ variant = "db"
    /\ inv[d].pc = "findSettings"
    /\ UNCHANGED <<config, stores, calls, writes, overlapped>>
    /\ \/ Throws(d)
       \/ /\ inv' = [inv EXCEPT
                ![d].pc = "admin",
                ![d].sendEmail = IF appSettings = {} THEN TRUE
                                 ELSE \A row \in appSettings : row.sendEmailNotification]
          /\ Observe(d, "none", FALSE)

\* 5. unauthenticated.admin(shop); then the loops start
DbAdmin(d) ==
    /\ variant = "db"
    /\ inv[d].pc = "admin"
    /\ UNCHANGED <<config, stores, calls, writes, overlapped>>
    /\ \/ Throws(d)
       \/ LET to == AfterUnit(inv[d].giftCardLineItems, 1, 0, <<>>, "setMetafield") IN
          /\ inv' = [inv EXCEPT ![d].pc = to.pc, ![d].li = to.li, ![d].i = to.i]
          /\ Observe(d, "completed", FALSE)

\* 6. createGiftCard for the unit at (li, i): the giftCardCreate mutation
\* throws, answers with userErrors, answers without card or code, or creates
\* the card, which is pushed to createdGiftCards before the record is written.
DbCreateGiftCard(d) ==
    LET me == inv[d]
        lineItem == me.giftCardLineItems[me.li]
        customerId == CustomerAttached(me.sendEmail, payload.customer)
        \* initialValue is lineItem.price as it stands; the call log holds its amount
        call == [lineItemId |-> lineItem.admin_graphql_api_id, unit |-> me.i,
                 initialValue |-> ParseFloat(lineItem.price),
                 customerId |-> customerId]
        id == Len(giftCards) + 1
        null == AfterUnit(me.giftCardLineItems, me.li, me.i + 1, me.createdGiftCards,
                          "setMetafield")
        caught == AfterCatch(me.giftCardLineItems, me.li, me.i, me.createdGiftCards,
                             "setMetafield")
    IN
    /\ variant = "db"
    /\ me.pc = "create"
    /\ UNCHANGED <<config, giftCardRecord, orderMetafield, orderNote, writes, overlapped>>
    /\ \/ \E failure \in {"throws", "userErrors", "no data"} :
            LET to == IF failure = "throws" THEN caught ELSE null IN
            /\ giftCards' = giftCards
            /\ calls' = [calls EXCEPT ![d] = Append(@, call @@ [giftCardId |-> 0, returned |-> FALSE])]
            /\ inv' = [inv EXCEPT ![d].pc = to.pc, ![d].li = to.li, ![d].i = to.i]
            /\ Observe(d, "completed", FALSE)
       \/ /\ giftCards' = Append(giftCards,
                 [id |-> id, code |-> GiftCardCode(id), initialValue |-> call.initialValue,
                  customerId |-> customerId, lineItemId |-> call.lineItemId,
                  fullNote |-> <<>>])
          /\ calls' = [calls EXCEPT ![d] = Append(@, call @@ [giftCardId |-> id, returned |-> TRUE])]
          /\ inv' = [inv EXCEPT
                ![d].pc = "recordCreate",
                ![d].giftCard = id,
                ![d].createdGiftCards = Push(@,
                    [lineItemId |-> call.lineItemId, giftCardId |-> id,
                     code |-> GiftCardCode(id), value |-> lineItem.price])]
          /\ Observe(d, "none", FALSE)

\* db.giftCardRecord.create for the card just created: the row is written, or
\* the write throws into the catch of the unit; the loops go on either way.
\* createdAt is the time of the insert, counted in rows written so far.
DbRecordCreate(d) ==
    LET me == inv[d]
        lineItem == me.giftCardLineItems[me.li]
        card == giftCards[me.giftCard]
    IN
    /\ variant = "db"
    /\ me.pc = "recordCreate"
    /\ UNCHANGED <<config, orderMetafield, orderNote, giftCards, calls, overlapped>>
    /\ \E ok \in BOOLEAN :
         LET to == IF ok
                   THEN AfterUnit(me.giftCardLineItems, me.li, me.i + 1,
                                  me.createdGiftCards, "setMetafield")
                   ELSE AfterCatch(me.giftCardLineItems, me.li, me.i,
                                   me.createdGiftCards, "setMetafield")
         IN
         /\ inv' = [inv EXCEPT ![d].pc = to.pc, ![d].li = to.li, ![d].i = to.i]
         /\ giftCardRecord' =
              IF ok
              THEN giftCardRecord \cup
                     {[id |-> Cardinality(giftCardRecord) + 1, shop |-> Shop,
                       orderId |-> payload.admin_graphql_api_id,
                       lineItemId |-> lineItem.admin_graphql_api_id,
                       giftCardId |-> card.id, giftCardCode |-> card.code,
                       value |-> ParseFloat(lineItem.price),
                       printedAt |-> PrintedAtDefault,
                       createdAt |-> Cardinality(giftCardRecord) + 1]}
              ELSE giftCardRecord
         /\ writes' = [writes EXCEPT ![d] = Append(@, [kind |-> "record", ok |-> ok])]
    /\ Observe(d, "completed", FALSE)

\* the entries of the created_codes metafield: JSON.stringify(giftCards.map(...))
MetafieldValueFormatted(createdGiftCards) ==
    [k \in DOMAIN createdGiftCards |->
        [code |-> formatGiftCardCode(createdGiftCards[k].code),
         value |-> createdGiftCards[k].value,
         giftCardId |-> createdGiftCards[k].giftCardId]]
MetafieldValue(createdGiftCards) ==
    [k \in DOMAIN createdGiftCards |->
        [code |-> createdGiftCards[k].code, value |-> createdGiftCards[k].value,
         giftCardId |-> createdGiftCards[k].giftCardId]]

\* 7. setOrderGiftCardMetafield: the metafield is set, or the mutation throws
\* or answers with userErrors (which setOrderGiftCardMetafield throws as an
\* error); the caller catches and logs.
DbSetMetafield(d) ==
    /\ variant = "db"
    /\ inv[d].pc = "setMetafield"
    /\ UNCHANGED <<config, giftCardRecord, orderNote, giftCards, calls, overlapped>>
    /\ \E result \in {"ok", "throws", "userErrors"} :
         /\ orderMetafield' =
              IF result = "ok"
              THEN [present |-> TRUE, value |-> MetafieldValue(inv[d].createdGiftCards)]
              ELSE orderMetafield
         /\ writes' = [writes EXCEPT ![d] = Append(@, [kind |-> "metafield", ok |-> result = "ok"])]
    /\ inv' = [inv EXCEPT ![d].pc = "done"]
    /\ Observe(d, "completed", FALSE)

----------------------------------------------------------------------------
(* processGiftCardOrder, metafield version: unnamed/part_002 *)

\* unauthenticated.admin(shop)
MfAdmin(d) ==
    /\ variant = "mf"
    /\ inv[d].pc = "admin"
    /\ UNCHANGED <<config, stores, calls, writes, overlapped>>
    /\ \/ Throws(d)
       \/ Goto(d, "getShopCurrency")

\* the getShopCurrency query
MfGetShopCurrency(d) ==
    /\ variant = "mf"
    /\ inv[d].pc = "getShopCurrency"
    /\ UNCHANGED <<config, stores, calls, writes, overlapped>>
    /\ \/ Throws(d)
       \/ Goto(d, "checkOrderMetafield")

\* orderCheckData.data?.order?.metafield?.value is truthy
OrderMetafieldValueNever(metafield) == FALSE
OrderMetafieldValue(metafield) == metafield.present

\* 1. the idempotency check: the checkOrderMetafield query
MfCheckOrderMetafield(d) ==
    /\ variant = "mf"
    /\ inv[d].pc = "checkOrderMetafield"
    /\ UNCHANGED <<config, stores, calls, writes, overlapped>>
    /\ \/ Throws(d)
       \/ IF OrderMetafieldValue(orderMetafield)
          THEN Returns(d, "duplicate")
          ELSE Goto(d, "getShopSettings")

\* getShopSettings: the parsed settings metafield, or the defaults
GetShopSettings(metafield) ==
    IF metafield.present THEN metafield.value ELSE DefaultSettings

\* the settings metafield after getShopSettings: the query reads it, and an
\* absent metafield stays absent (the defaults are returned, not saved)
ShopMetafieldAfterGetSavesDefaults(metafield) ==
    [present |-> TRUE, value |-> GetShopSettings(metafield)]
ShopMetafieldAfterGet(metafield) == metafield

\* 2. and 3. the settings of the shop and the line items that match; the loops
\* start in the same step
MfGetShopSettings(d) ==
    /\ variant = "mf"
    /\ inv[d].pc = "getShopSettings"
    /\ shopMetafield' = ShopMetafieldAfterGet(shopMetafield)
    /\ UNCHANGED <<variant, payload, giftCardProduct, appSettings>>
    /\ UNCHANGED <<stores, calls, writes, overlapped>>
    /\ \/ Throws(d)
       \/ LET settings == GetShopSettings(shopMetafield) IN
          IF Len(settings.variantIds) = 0
          THEN Returns(d, "no_variants")
          ELSE LET items == GiftCardLineItems(payload.line_items, Range(settings.variantIds))
                   to == AfterUnit(items, 1, 0, <<>>, "updateOrder")
               IN
               IF Len(items) = 0
               THEN Returns(d, "no_match")
               ELSE /\ inv' = [inv EXCEPT
                          ![d].pc = to.pc, ![d].li = to.li, ![d].i = to.i,
                          ![d].giftCardLineItems = items,
                          ![d].sendEmail = settings.sendEmailNotification,
                          ![d].printedOverhead = OrZero(settings.printedOverhead).n]
                    /\ Observe(d, "completed", FALSE)

\* 4. createGiftCard for the unit at (li, i), first half: the giftCardCreate
\* mutation throws, answers with userErrors, answers without card or code, or
\* creates the card.
MfCreateGiftCard(d) ==
    LET me == inv[d]
        lineItem == me.giftCardLineItems[me.li]
        giftCardValue == GiftCardValue(lineItem.price, me.printedOverhead)
        customerId == CustomerAttached(me.sendEmail, payload.customer)
        call == [lineItemId |-> lineItem.admin_graphql_api_id, unit |-> me.i,
                 initialValue |-> giftCardValue, customerId |-> customerId]
        id == Len(giftCards) + 1
        null == AfterUnit(me.giftCardLineItems, me.li, me.i + 1, me.createdGiftCards,
                          "updateOrder")
        caught == AfterCatch(me.giftCardLineItems, me.li, me.i, me.createdGiftCards,
                             "updateOrder")
    IN
    /\ variant = "mf"
    /\ me.pc = "create"
    /\ UNCHANGED <<config, giftCardRecord, orderMetafield, orderNote, writes, overlapped>>
    /\ \/ \E failure \in {"throws", "userErrors", "no data"} :
            LET to == IF failure = "throws" THEN caught ELSE null IN
            /\ giftCards' = giftCards
            /\ calls' = [calls EXCEPT ![d] = Append(@, call @@ [giftCardId |-> 0, returned |-> FALSE])]
            /\ inv' = [inv EXCEPT ![d].pc = to.pc, ![d].li = to.li, ![d].i = to.i]
            /\ Observe(d, "completed", FALSE)
       \/ /\ giftCards' = Append(giftCards,
                 [id |-> id, code |-> GiftCardCode(id), initialValue |-> giftCardValue,
                  customerId |-> customerId, lineItemId |-> call.lineItemId,
                  fullNote |-> <<>>])
          /\ calls' = [calls EXCEPT ![d] = Append(@, call @@ [giftCardId |-> id, returned |-> FALSE])]
          /\ inv' = [inv EXCEPT ![d].pc = "giftCardUpdate", ![d].giftCard = id]
          /\ Observe(d, "none", FALSE)

\* createGiftCard, second half: the giftCardUpdate mutation that puts the full
\* code into the card's note.  Its answer is not read; when it throws,
\* createGiftCard throws into the catch of the unit and the card is not pushed
\* to createdGiftCards.
MfGiftCardUpdate(d) ==
    LET me == inv[d]
        lineItem == me.giftCardLineItems[me.li]
        card == giftCards[me.giftCard]
    IN
    /\ variant = "mf"
    /\ me.pc = "giftCardUpdate"
    /\ UNCHANGED <<config, giftCardRecord, orderMetafield, orderNote, writes, overlapped>>
    /\ \E ok \in BOOLEAN :
         LET created == IF ok
                        THEN Push(me.createdGiftCards,
                               [lineItemId |-> lineItem.admin_graphql_api_id,
                                giftCardId |-> card.id, code |-> card.code,
                                value |-> card.initialValue])
                        ELSE me.createdGiftCards
             to == IF ok
                   THEN AfterUnit(me.giftCardLineItems, me.li, me.i + 1, created, "updateOrder")
                   ELSE AfterCatch(me.giftCardLineItems, me.li, me.i, created, "updateOrder")
         IN
         /\ giftCards' = IF ok THEN [giftCards EXCEPT ![me.giftCard].fullNote = formatGiftCardCode(card.code)]
                         ELSE giftCards
         /\ calls' = [calls EXCEPT ![d][Len(calls[d])].returned = ok]
         /\ inv' = [inv EXCEPT ![d].pc = to.pc, ![d].li = to.li, ![d].i = to.i,
                               ![d].createdGiftCards = created]
    /\ Observe(d, "completed", FALSE)

\* the gift card section of the new note: one entry per card, with its code
\* formatted
GiftCardNoteLines(createdGiftCards) ==
    [k \in DOMAIN createdGiftCards |->
        [giftCardId |-> createdGiftCards[k].giftCardId,
         formattedCode |-> formatGiftCardCode(createdGiftCards[k].code),
         value |-> createdGiftCards[k].value]]

\* 5. updateOrderWithGiftCards: one request with the orderUpdate (note) and the
\* metafieldsSet mutations.  The request throws, or either mutation takes
\* effect or answers with userErrors, which are logged only.
MfUpdateOrder(d) ==
    /\ variant = "mf"
    /\ inv[d].pc = "updateOrder"
    /\ UNCHANGED <<config, giftCardRecord, giftCards, calls, overlapped>>
    /\ \E noteOk \in BOOLEAN, metafieldOk \in BOOLEAN :
         /\ orderNote' = IF noteOk
                         THEN GiftCardNoteLines(inv[d].createdGiftCards)
                         ELSE orderNote
         /\ orderMetafield' =
              IF metafieldOk
              THEN [present |-> TRUE, value |-> MetafieldValue(inv[d].createdGiftCards)]
              ELSE orderMetafield
         /\ writes' = [writes EXCEPT ![d] =
                          Append(@, [kind |-> "metafield", ok |-> metafieldOk])]
    /\ inv' = [inv EXCEPT ![d].pc = "done"]
    /\ Observe(d, "completed", FALSE)

----------------------------------------------------------------------------
(* The action of the orders page: app/routes/app.orders.tsx *)

\* data: { printedAt: new Date() } and data: { printedAt: null }
MarkPrintedDataResetsValue(row, date) == [row EXCEPT !.printedAt = <<date>>, !.value = 0]
MarkPrintedData(row, date) == [row EXCEPT !.printedAt = <<date>>]
UnmarkPrintedDataKeeps(row) == row
UnmarkPrintedData(row) == [row EXCEPT !.printedAt = <<>>]

\* the rows db.giftCardRecord.update({ where: { id, shop } }) finds: one or none
WhereIdAnyShop(id, shop) == {r \in giftCardRecord : r.id = id}
WhereIdShop(id, shop) == {r \in giftCardRecord : r.id = id /\ r.shop = shop}

\* intent "markPrinted" in a session of the shop: the row gets printedAt = new Date(); without such a
\* row the update throws and nothing changes
MarkPrinted(shop, id) ==
    /\ \E date \in Dates :
         giftCardRecord' = (giftCardRecord \ WhereIdShop(id, shop))
                            \cup {MarkPrintedData(r, date) : r \in WhereIdShop(id, shop)}
    /\ markLog' = IF WhereIdShop(id, shop) = {} THEN markLog
                  ELSE [markLog EXCEPT ![id] = [intent |-> "markPrinted",
                                                before |-> WhereIdShop(id, shop),
                                                shop |-> shop]]
    /\ UNCHANGED <<config, orderMetafield, orderNote, giftCards, inv, response, exit,
                   calls, writes, overlapped, recAfter, trace, adminPages>>

\* intent "unmarkPrinted": the row gets printedAt = null; without such a row
\* the update throws and nothing changes
UnmarkPrinted(shop, id) ==
    /\ giftCardRecord' = (giftCardRecord \ WhereIdShop(id, shop))
                         \cup {UnmarkPrintedData(r) : r \in WhereIdShop(id, shop)}
    /\ markLog' = IF WhereIdShop(id, shop) = {} THEN markLog
                  ELSE [markLog EXCEPT ![id].intent =
                           IF @ = "markPrinted" THEN "markPrinted, unmarkPrinted"
                           ELSE "unmarkPrinted",
                                       ![id].shop = shop]
    /\ UNCHANGED <<config, orderMetafield, orderNote, giftCards, inv, response, exit,
                   calls, writes, overlapped, recAfter, trace, adminPages>>

----------------------------------------------------------------------------
(* The loader of the orders page, database version: app/routes/app.orders.tsx *)

ORDERS_PER_PAGE == 10

\* Array.prototype.slice(start, end) of a sequence (start and end from 0)
Slice(array, start, end) == SubSeq(array, start + 1, Min(end, Len(array)))

\* db.giftCardRecord.findMany({ where: { shop }, orderBy: { createdAt: "desc" } });
\* rows of the same createdAt come in an order the database chooses
FindMany(rows, shop) == {r \in rows : r.shop = shop}

RECURSIVE OrderByCreatedAtDesc(_)
OrderByCreatedAtDesc(rows) ==
    IF rows = {} THEN <<>>
    ELSE LET newest == CHOOSE r \in rows : \A q \in rows : q.createdAt <= r.createdAt
         IN  <<newest>> \o OrderByCreatedAtDesc(rows \ {newest})

\* the keys of orderMap in insertion order: the order ids in the order of
\* their first record
OrderMapKeysPerRecord(records) == [k \in DOMAIN records |-> records[k].orderId]
RECURSIVE OrderMapKeys(_)
OrderMapKeys(records) ==
    IF Len(records) = 0 THEN <<>>
    ELSE <<Head(records).orderId>>
         \o OrderMapKeys(SelectSeq(Tail(records),
                                   LAMBDA r : r.orderId # Head(records).orderId))

\* currentBalance: balanceMap.get(r.giftCardId) ?? Number(r.value), for a
\* platform that reports no balance or one lower than the value
CurrentBalance(value, balance) == IF balance = "lower" THEN Max(0, value - 1000) ELSE value

\* allOrders: one entry per order, with its records in findMany order
AllOrders(records, balance) ==
    LET keys == OrderMapKeys(records) IN
    [k \in DOMAIN keys |->
        LET group == SelectSeq(records, LAMBDA r : r.orderId = keys[k]) IN
        [orderId |-> keys[k],
         giftCards |-> [j \in DOMAIN group |->
                          [id |-> group[j].id,
                           giftCardCode |-> group[j].giftCardCode,
                           value |-> group[j].value,
                           currentBalance |-> CurrentBalance(group[j].value, balance),
                           giftCardId |-> group[j].giftCardId,
                           printedAt |-> group[j].printedAt,
                           createdAt |-> group[j].createdAt]],
         createdAt |-> group[1].createdAt]]

\* Math.ceil(totalOrders / ORDERS_PER_PAGE)
TotalPages(totalOrders) == (totalOrders + ORDERS_PER_PAGE - 1) \div ORDERS_PER_PAGE

\* the loader for the given page in a session of the shop; the page keeps its
\* Next control enabled while currentPage < totalPages
Loader(shop, page, balance, shown) ==
    LET giftCardRecords == OrderByCreatedAtDesc(FindMany(giftCardRecord, shop))
        allOrders == AllOrders(giftCardRecords, balance)
        totalOrders == Cardinality({r.orderId : r \in FindMany(giftCardRecord, shop)})
        startIndex == (page - 1) * ORDERS_PER_PAGE
        orders == Slice(allOrders, startIndex, startIndex + ORDERS_PER_PAGE)
    IN
    /\ variant = "db"
    /\ view' = [loader |-> "db", shop |-> shop, orders |-> orders,
                hasNextPage |-> page < TotalPages(totalOrders),
                page |-> page, cursor |-> 0,
                shown |-> Append(shown, [k \in DOMAIN orders |-> orders[k].orderId])]
    /\ UNCHANGED <<config, stores, inv, response, exit, calls, writes, overlapped,
                   recAfter, trace, markLog, settingsReq, platformOrders>>

\* the orders page is opened in a session of a shop
LoadFirstPage(shop, balance) == Loader(shop, 1, balance, <<>>)

\* the Next control of the page shown
LoadNextPage ==
    /\ view.loader = "db" /\ view.hasNextPage
    /\ \E balance \in {"none", "lower"} : Loader(view.shop, view.page + 1, balance, view.shown)

----------------------------------------------------------------------------
(* The loader of the orders page, metafield version: unnamed/part_001 *)

\* orders(first: 50, ...): the orders one query fetches
OrdersPerQuery == 50

\* sortKey: CREATED_AT, reverse: true
RECURSIVE Reverse(_)
Reverse(s) == IF Len(s) = 0 THEN <<>> ELSE Append(Reverse(Tail(s)), Head(s))

\* The loader for the given cursor (0: no cursor; otherwise the number of
\* orders, newest first, up to the cursor's order) in the direction "next":
\* up to 50 orders after the cursor are fetched, those without a value in the
\* created_codes metafield are dropped, the first ORDERS_PER_PAGE of the rest
\* are returned, and nextCursor is the endCursor of the fetched orders.
MfLoader(cursor, shown) ==
    LET newestFirst == Reverse(platformOrders)
        allOrders == SubSeq(newestFirst, cursor + 1,
                            Min(cursor + OrdersPerQuery, Len(newestFirst)))
        pageInfo == [hasNextPage |-> cursor + OrdersPerQuery < Len(newestFirst),
                     endCursor |-> IF Len(allOrders) = 0 THEN 0 ELSE cursor + Len(allOrders)]
        ordersWithGiftCards == SelectSeq(allOrders, LAMBDA order : order.metafield.present)
        all == [k \in DOMAIN ordersWithGiftCards |->
                   [orderId |-> ordersWithGiftCards[k].id,
                    giftCards |-> ordersWithGiftCards[k].metafield.value,
                    createdAt |-> ordersWithGiftCards[k].createdAt]]
        orders == Slice(all, 0, ORDERS_PER_PAGE)
    IN
    /\ variant = "mf"
    /\ view' = [loader |-> "mf", shop |-> Shop, orders |-> orders,
                hasNextPage |-> pageInfo.hasNextPage \/ Len(all) > ORDERS_PER_PAGE,
                page |-> 0, cursor |-> pageInfo.endCursor,
                shown |-> Append(shown, [k \in DOMAIN orders |-> orders[k].orderId])]
    /\ UNCHANGED <<config, stores, inv, response, exit, calls, writes, overlapped,
                   recAfter, trace, markLog, settingsReq, platformOrders>>

\* the orders page is opened
MfLoadFirstPage == MfLoader(0, <<>>)

\* the Next control of the page shown: goToNextPage with the nextCursor
MfLoadNextPage ==
    /\ view.loader = "mf" /\ view.hasNextPage /\ view.cursor # 0
    /\ MfLoader(view.cursor, view.shown)

----------------------------------------------------------------------------
(* The action of the settings page: app/routes/app.settings.tsx *)

Intents == {"addProducts", "removeVariant", "removeProduct", "updateSettings",
            "updateOverhead"}

\* the texts the printedOverhead field is submitted with
OverheadTexts == {"", "abc", "-5", "0", "1.254", "3.00", "30", "Infinity", "-Infinity"}

\* parseFloat of such a text, in thousandths
ParseFloatText(text) ==
    CASE text = "-5" -> Num(-5000)
      [] text = "0" -> Num(0)
      [] text = "1.254" -> Num(1254)
      [] text = "3.00" -> Num(3000)
      [] text = "30" -> Num(30000)
      [] text = "Infinity" -> Infinity
      [] text = "-Infinity" -> NegInfinity
      [] OTHER -> NaN

\* the forms a request of the given intent can carry: the variants of the
\* picked products, the variant or the variants to remove, the email flag, the
\* overhead text
FormData(intent) ==
    CASE intent = "addProducts" ->
           {[NoFormData EXCEPT !.variantIds = ids] :
               ids \in {<<VariantGid("A")>>, <<VariantGid("B")>>,
                        <<VariantGid("A"), VariantGid("B")>>,
                        <<VariantGid("B"), VariantGid("B")>>}}
      [] intent = "removeVariant" ->
           {[NoFormData EXCEPT !.variantIds = <<VariantGid(v)>>] : v \in {"A", "B"}}
      [] intent = "removeProduct" ->
           {[NoFormData EXCEPT !.variantIds = ids] :
               ids \in {<<VariantGid("A")>>, <<VariantGid("A"), VariantGid("B")>>}}
      [] intent = "updateSettings" ->
           {[NoFormData EXCEPT !.sendEmailNotification = flag] : flag \in BOOLEAN}
      [] intent = "updateOverhead" ->
           {[NoFormData EXCEPT !.printedOverhead = text] : text \in OverheadTexts}

\* Array.from(new Set(variantIds) with every id added): the ids in the order
\* of their first occurrence
AddVariantIdsConcat(variantIds, ids) == variantIds \o ids
RECURSIVE AddVariantIds(_, _)
AddVariantIds(variantIds, ids) ==
    IF Len(ids) = 0 THEN variantIds
    ELSE AddVariantIds(IF Head(ids) \in Range(variantIds) THEN variantIds
                       ELSE Append(variantIds, Head(ids)),
                       Tail(ids))

\* settings.variantIds.filter((id) => !variantIdsToRemove.includes(id)), and
\* the filter of removeVariant with the one variantId
RemoveVariantIds(variantIds, variantIdsToRemove) ==
    SelectSeq(variantIds, LAMBDA id : id \notin Range(variantIdsToRemove))

\* Math.max(0, parseFloat(text) || 0)
OverheadOfText(text) == MathMax0(OrZero(ParseFloatText(text)))

\* the settings object after the branch of the intent has assigned its part
ApplyIntent(intent, settings, formData) ==
    CASE intent = "addProducts" ->
           [settings EXCEPT !.variantIds = AddVariantIds(@, formData.variantIds)]
      [] intent \in {"removeVariant", "removeProduct"} ->
           [settings EXCEPT !.variantIds = RemoveVariantIds(@, formData.variantIds)]
      [] intent = "updateSettings" ->
           [settings EXCEPT !.sendEmailNotification = formData.sendEmailNotification]
      [] intent = "updateOverhead" ->
           [settings EXCEPT !.printedOverhead = OverheadOfText(formData.printedOverhead)]

\* JSON.stringify(settings) as getShopSettings parses it back
JsonSettings(settings) == [settings EXCEPT !.printedOverhead = JsonNumber(@)]

\* the part of the settings an intent names
PartOf(intent) ==
    CASE intent \in {"addProducts", "removeVariant", "removeProduct"} -> "variantIds"
      [] intent = "updateSettings" -> "sendEmailNotification"
      [] intent = "updateOverhead" -> "printedOverhead"

\* what a step of a settings request leaves alone
SettingsFrame ==
    UNCHANGED <<variant, payload, giftCardProduct, appSettings, stores, inv, response,
                exit, calls, writes, overlapped, recAfter, trace, markLog,
                platformOrders, view>>

\* the form of the settings page (of the metafield version) is submitted with
\* the intent
SettingsSubmit(r, intent, formData) ==
    /\ variant = "mf"
    /\ settingsReq[r].pc = "idle"
    /\ settingsReq' = [settingsReq EXCEPT ![r] =
          [pc |-> "getShopSettings", intent |-> intent, formData |-> formData,
           settings |-> DefaultSettings]]
    /\ UNCHANGED shopMetafield
    /\ SettingsFrame

\* const settings = await getShopSettings(admin), and the branch of the intent
\* up to its await of saveShopSettings; a throw of the query ends the request
SettingsGetShopSettings(r) ==
    LET me == settingsReq[r] IN
    /\ me.pc = "getShopSettings"
    /\ \/ settingsReq' = [settingsReq EXCEPT ![r] = IdleRequest]
       \/ settingsReq' = [settingsReq EXCEPT
             ![r].pc = "getShopId",
             ![r].settings = ApplyIntent(me.intent, GetShopSettings(shopMetafield),
                                         me.formData)]
    /\ UNCHANGED shopMetafield
    /\ SettingsFrame

\* saveShopSettings, the getShopId query
SettingsGetShopId(r) ==
    /\ settingsReq[r].pc = "getShopId"
    /\ \/ settingsReq' = [settingsReq EXCEPT ![r] = IdleRequest]
       \/ settingsReq' = [settingsReq EXCEPT ![r].pc = "metafieldsSet"]
    /\ UNCHANGED shopMetafield
    /\ SettingsFrame

\* saveShopSettings, the metafieldsSet mutation: the whole settings object is
\* written, or the mutation throws or answers with userErrors (which are not
\* read); the request ends
SettingsMetafieldsSet(r) ==
    /\ settingsReq[r].pc = "metafieldsSet"
    /\ \E ok \in BOOLEAN :
         shopMetafield' = IF ok
                          THEN [present |-> TRUE,
                                value |-> JsonSettings(settingsReq[r].settings)]
                          ELSE shopMetafield
    /\ settingsReq' = [settingsReq EXCEPT ![r] = IdleRequest]
    /\ SettingsFrame

----------------------------------------------------------------------------
(* Specifications *)

Step(d) ==
    \/ Receive(d)
    \/ Authenticate(d)
    \/ DbFindFirst(d)
    \/ DbFindProducts(d)
    \/ DbFindSettings(d)
    \/ DbAdmin(d)
    \/ DbCreateGiftCard(d)
    \/ DbRecordCreate(d)
    \/ DbSetMetafield(d)
    \/ MfAdmin(d)
    \/ MfGetShopCurrency(d)
    \/ MfCheckOrderMetafield(d)
    \/ MfGetShopSettings(d)
    \/ MfCreateGiftCard(d)
    \/ MfGiftCardUpdate(d)
    \/ MfUpdateOrder(d)

\* deliveries of the same order, overlapping or not
Next == \E d \in Deliveries : Step(d)
Spec == Init /\ [][Next]_vars

\* a single delivery
NextSingle == Step(1)
SpecSingle == InitSingle /\ [][NextSingle]_vars

\* One delivery to the database version, and the requests of the orders page
\* for the records it writes: an order of 1..MaxQty units of trigger variant A.
InitOrders ==
    /\ InitConfig({<<VariantGid("A")>>}, {TRUE}, {0})
    /\ variant = "db"
    /\ payload \in {Order(qa, 0, TRUE) : qa \in 1..MaxQty}
    /\ InitStores

NextOrders ==
    \/ Receive(1)
    \/ Authenticate(1)
    \/ DbFindFirst(1)
    \/ DbFindProducts(1)
    \/ DbFindSettings(1)
    \/ DbAdmin(1)
    \/ DbCreateGiftCard(1)
    \/ DbRecordCreate(1)
    \/ DbSetMetafield(1)
    \/ \E id \in RecordIds : MarkPrinted(Shop, id)
    \/ \E id \in RecordIds : UnmarkPrinted(Shop, id)

SpecOrders == InitOrders /\ [][NextOrders]_vars

\* a record of another shop for an order with the same id
OtherShopRecord ==
    [id |-> 0, shop |-> OtherShop, orderId |-> <<"gid://shopify/Order", 1>>,
     lineItemId |-> <<"gid://shopify/LineItem", 1>>, giftCardId |-> 0,
     giftCardCode |-> GiftCardCode(0), value |-> 25000,
     printedAt |-> PrintedAtDefault, createdAt |-> 0]

\* Two shops on one database: the database version receives an order of shop-1
\* with one unit of the trigger variant while operators of both shops use the
\* orders page; shop-2 has a record for an order with the same id.
InitShops ==
    /\ InitConfig({<<VariantGid("A")>>}, {TRUE}, {0})
    /\ variant = "db"
    /\ payload = Order(1, 0, TRUE)
    /\ giftCardRecord = {OtherShopRecord}
    /\ platformOrders = <<>>
    /\ InitOthers

NextShops ==
    \/ Receive(1)
    \/ Authenticate(1)
    \/ DbFindFirst(1)
    \/ DbFindProducts(1)
    \/ DbFindSettings(1)
    \/ DbAdmin(1)
    \/ DbCreateGiftCard(1)
    \/ DbRecordCreate(1)
    \/ DbSetMetafield(1)
    \/ \E shop \in Shops, id \in RecordIds : MarkPrinted(shop, id)
    \/ \E shop \in Shops, id \in RecordIds : UnmarkPrinted(shop, id)
    \/ \E shop \in Shops : LoadFirstPage(shop, "none")

SpecShops == InitShops /\ [][NextShops]_vars

\* the platform delivers the event again after the first delivery has ended
Redeliver == inv[1].pc = "done" /\ Receive(2)

\* The life of the records of one order: the database version receives an
\* order with one unit of the trigger variant and, later, the same event
\* again, while the operator of the shop uses the orders page.
InitRecords ==
    /\ InitConfig({<<VariantGid("A")>>}, {TRUE}, {0})
    /\ variant = "db"
    /\ payload = Order(1, 0, TRUE)
    /\ InitStores

NextRecords ==
    \/ Receive(1)
    \/ Redeliver
    \/ \E d \in Deliveries : Authenticate(d)
    \/ \E d \in Deliveries : DbFindFirst(d)
    \/ \E d \in Deliveries : DbFindProducts(d)
    \/ \E d \in Deliveries : DbFindSettings(d)
    \/ \E d \in Deliveries : DbAdmin(d)
    \/ \E d \in Deliveries : DbCreateGiftCard(d)
    \/ \E d \in Deliveries : DbRecordCreate(d)
    \/ \E d \in Deliveries : DbSetMetafield(d)
    \/ \E id \in RecordIds : MarkPrinted(Shop, id)
    \/ \E id \in RecordIds : UnmarkPrinted(Shop, id)
    \/ \E balance \in {"none", "lower"} : LoadFirstPage(Shop, balance)

SpecRecords == InitRecords /\ [][NextRecords]_vars

\* The settings page of a shop that has stored no settings yet: one request at
\* a time, any intent, any form.
InitSettings ==
    /\ variant = "mf"
    /\ giftCardProduct = {}
    /\ appSettings = {}
    /\ shopMetafield = NoSettings
    /\ payload = Order(1, 0, TRUE)
    /\ InitStores

NextSettings ==
    \/ \E intent \in Intents : \E formData \in FormData(intent) :
          SettingsSubmit(1, intent, formData)
    \/ SettingsGetShopSettings(1)
    \/ SettingsGetShopId(1)
    \/ SettingsMetafieldsSet(1)

SpecSettings == InitSettings /\ [][NextSettings]_vars

\* The overhead setting and the pipeline that reads it: a shop whose trigger
\* set holds A submits the overhead field with any text, one request at a
\* time, and an order with one unit of A is delivered to the metafield version.
InitOverhead ==
    /\ variant = "mf"
    /\ giftCardProduct = {}
    /\ appSettings = {}
    /\ shopMetafield = [present |-> TRUE,
                        value |-> [DefaultSettings EXCEPT !.variantIds = <<VariantGid("A")>>]]
    /\ payload = Order(1, 0, TRUE)
    /\ InitStores

NextOverhead ==
    \/ \E formData \in FormData("updateOverhead") :
          SettingsSubmit(1, "updateOverhead", formData)
    \/ SettingsGetShopSettings(1)
    \/ SettingsGetShopId(1)
    \/ SettingsMetafieldsSet(1)
    \/ Receive(1)
    \/ Authenticate(1)
    \/ MfAdmin(1)
    \/ MfGetShopCurrency(1)
    \/ MfCheckOrderMetafield(1)
    \/ MfGetShopSettings(1)
    \/ MfCreateGiftCard(1)
    \/ MfGiftCardUpdate(1)
    \/ MfUpdateOrder(1)

SpecOverhead == InitOverhead /\ [][NextOverhead]_vars

\* the shop an order belongs to: order 3 is an order of shop-2
ShopOfOrder(o) == IF o = 3 THEN OtherShop ELSE Shop

\* record k of a listing: the k-th row written, for the given order
ListingRow(k, o) ==
    [id |-> k, shop |-> ShopOfOrder(o), orderId |-> <<"gid://shopify/Order", o>>,
     lineItemId |-> <<"gid://shopify/LineItem", 1>>, giftCardId |-> k,
     giftCardCode |-> GiftCardCode(k), value |-> 25000,
     printedAt |-> PrintedAtDefault, createdAt |-> k]

ListingRows(orderOfRow) == {ListingRow(k, orderOfRow[k]) : k \in DOMAIN orderOfRow}

\* order k of the platform, with or without the created_codes metafield
PlatformOrder(k, annotated) ==
    [id |-> <<"gid://shopify/Order", k>>, createdAt |-> k,
     metafield |-> IF annotated
                   THEN [present |-> TRUE,
                         value |-> MetafieldValue(<<[code |-> GiftCardCode(k),
                                                     value |-> PriceOf("A"),
                                                     giftCardId |-> k]>>)]
                   ELSE NoMetafield]

\* the numbers of orders of a long listing: one full page, one order more,
\* and more than one query fetches
LongListings == {ORDERS_PER_PAGE, ORDERS_PER_PAGE + 1, OrdersPerQuery + 1}

\* The orders page over the records that exist: short listings of up to
\* MaxRows records over three orders (one of them of shop-2) or of up to
\* MaxRows platform orders, annotated or not, and long listings of one record
\* or annotation per order.
InitListing ==
    /\ variant \in {"db", "mf"}
    /\ giftCardProduct = {}
    /\ appSettings = {}
    /\ shopMetafield = NoSettings
    /\ payload = Order(1, 0, TRUE)
    /\ IF variant = "db"
       THEN /\ giftCardRecord \in
                 {ListingRows(l) : l \in UNION {[1..n -> 1..3] : n \in 0..MaxRows}}
                 \cup {ListingRows([k \in 1..(n + 1) |-> k]) : n \in LongListings}
            /\ platformOrders = <<>>
       ELSE /\ giftCardRecord = {}
            /\ platformOrders \in
                 {[k \in 1..n |-> PlatformOrder(k, a[k])] :
                     n \in 0..MaxRows, a \in [1..MaxRows -> BOOLEAN]}
                 \cup {[k \in 1..n |-> PlatformOrder(k, TRUE)] : n \in LongListings}
    /\ InitOthers

NextListing ==
    \/ \E shop \in Shops, balance \in {"none", "lower"} : LoadFirstPage(shop, balance)
    \/ LoadNextPage
    \/ MfLoadFirstPage
    \/ MfLoadNextPage

SpecListing == InitListing /\ [][NextListing]_vars

\* A shop that has stored no settings: the database version with trigger
\* variant A and no appSettings row, or the metafield version without the
\* settings metafield, whose operator only ever adds products.  An order of
\* one unit of A, with or without a customer, is delivered once.
InitDefaults ==
    /\ variant \in {"db", "mf"}
    /\ giftCardProduct = IF variant = "db" THEN {VariantGid("A")} ELSE {}
    /\ appSettings = {}
    /\ shopMetafield = NoSettings
    /\ payload \in {Order(1, 0, c) : c \in BOOLEAN}
    /\ InitStores

NextDefaults ==
    \/ \E formData \in FormData("addProducts") : SettingsSubmit(1, "addProducts", formData)
    \/ SettingsGetShopSettings(1)
    \/ SettingsGetShopId(1)
    \/ SettingsMetafieldsSet(1)
    \/ Step(1)

SpecDefaults == InitDefaults /\ [][NextDefaults]_vars

\* the form each intent is submitted with while requests overlap: variant A is
\* added or removed, the email flag is switched off, the overhead is set to 3.00
OverlapForm(intent) ==
    CASE intent \in {"addProducts", "removeVariant", "removeProduct"} ->
           [NoFormData EXCEPT !.variantIds = <<VariantGid("A")>>]
      [] intent = "updateSettings" -> [NoFormData EXCEPT !.sendEmailNotification = FALSE]
      [] intent = "updateOverhead" -> [NoFormData EXCEPT !.printedOverhead = "3.00"]

\* Settings requests of one shop that may overlap: each request runs from its
\* submit to its save, and another one can take every step in between.
NextOverlap ==
    \E r \in SettingsRequests :
        \/ \E intent \in Intents : SettingsSubmit(r, intent, OverlapForm(intent))
        \/ SettingsGetShopSettings(r)
        \/ SettingsGetShopId(r)
        \/ SettingsMetafieldsSet(r)

SpecOverlap == InitSettings /\ [][NextOverlap]_vars

\* A delivery whose awaits all settle: every call of an invocation that has
\* started returns or throws, so the invocation takes its next step.
Proceed(d) == inv[d].pc # "idle" /\ Step(d)
SpecSingleFair == SpecSingle /\ WF_vars(Proceed(1))

----------------------------------------------------------------------------
(* What the claims speak of, read off the stores and the event *)

\* the trigger variants of the shop
TriggerVariants ==
    IF variant = "db" THEN giftCardProduct
    ELSE IF shopMetafield.present THEN Range(shopMetafield.value.variantIds) ELSE {}

\* the stored settings, with the defaults of a shop that has stored none
SendEmailNotification ==
    IF variant = "db"
    THEN \A row \in appSettings : row.sendEmailNotification
    ELSE shopMetafield.present => shopMetafield.value.sendEmailNotification

PrintedOverhead ==
    IF variant = "mf" /\ shopMetafield.present
    THEN OrZero(shopMetafield.value.printedOverhead).n ELSE 0

IsTrigger(item) == <<"gid://shopify/ProductVariant", item.variant_id>> \in TriggerVariants

\* the unit price of a line item in thousandths: 25.00 and 2.00
UnitPrice(item) == IF item.variant_id = "A" THEN 25000 ELSE 2000

RECURSIVE SumQuantity(_)
SumQuantity(items) ==
    IF Len(items) = 0 THEN 0
    ELSE (IF IsTrigger(Head(items)) THEN Head(items).quantity ELSE 0)
         + SumQuantity(Tail(items))

\* the sum of the quantities of the trigger-variant line items of the order
TriggerQuantity == SumQuantity(payload.line_items)

\* the units of the trigger line items, in line-item order, then unit order
RECURSIVE UnitsFrom(_, _)
UnitsFrom(items, i) ==
    IF Len(items) = 0 THEN <<>>
    ELSE IF IsTrigger(Head(items)) /\ i < Head(items).quantity
         THEN <<[lineItemId |-> Head(items).admin_graphql_api_id, unit |-> i]>>
              \o UnitsFrom(items, i + 1)
         ELSE UnitsFrom(Tail(items), 0)

ExpectedUnits == UnitsFrom(payload.line_items, 0)

LineItemOf(lineItemId) ==
    CHOOSE item \in Range(payload.line_items) : item.admin_graphql_api_id = lineItemId

Done(d) == inv[d].pc = "done"

\* the invocation returned from processGiftCardOrder (it did not throw)
Returned(d) == exit[d] \in {"duplicate", "no_variants", "no_match", "completed"}

\* the order counts as processed for the idempotency check of the deployed version
Processed ==
    \/ variant = "db" /\ \E r \in giftCardRecord :
                            r.shop = Shop /\ r.orderId = payload.admin_graphql_api_id
    \/ variant = "mf" /\ orderMetafield.present

GuardLabel == IF variant = "db" THEN "findFirst" ELSE "checkOrderMetafield"

\* cards at the platform, database rows and annotation entries of a line item
CardsOf(item) ==
    Cardinality({k \in DOMAIN giftCards :
                    giftCards[k].lineItemId = item.admin_graphql_api_id})
RowsOf(item) ==
    Cardinality({r \in giftCardRecord : r.lineItemId = item.admin_graphql_api_id})
EntriesOf(item) ==
    Cardinality({k \in DOMAIN orderMetafield.value :
        giftCards[orderMetafield.value[k].giftCardId].lineItemId = item.admin_graphql_api_id})

\* the calls of a delivery for which createGiftCard returned a card
ReturnedCalls(d) == SelectSeq(calls[d], LAMBDA c : c.returned)
RecordWrites(d) == SelectSeq(writes[d], LAMBDA w : w.kind = "record")

----------------------------------------------------------------------------
(* C1 *)

\* C1: over deliveries of the order that do not overlap, whatever calls and
\* writes fail, the number of gift cards created at the platform never exceeds
\* the sum of the quantities of the order's trigger-variant line items.
C1_AtMostOncePerUnit ==
    ~overlapped => Len(giftCards) <= TriggerQuantity

----------------------------------------------------------------------------
(* C2 *)

\* the responses of the second delivery repeat those of the first: a delivery
\* is not cut short by a throw unless the other is, and the calls and writes
\* that both deliveries make have the same outcome
Aborted(d) == exit[d] \in {"exception", "unauthenticated", "no_shop"}
SameResponses ==
    /\ Aborted(1) <=> Aborted(2)
    /\ \A k \in 1..Min(Len(calls[1]), Len(calls[2])) :
          /\ (calls[1][k].giftCardId = 0) <=> (calls[2][k].giftCardId = 0)
          /\ calls[1][k].returned <=> calls[2][k].returned
    /\ \A k \in 1..Min(Len(writes[1]), Len(writes[2])) : writes[1][k] = writes[2][k]

\* a set of records without the identifiers the platform and the database
\* assign: per line item the values of its rows, and the values of the entries
RecordsShape(rec) ==
    [rows |-> [item \in Range(payload.line_items) |->
                 [v \in {r.value : r \in rec.rows} |->
                    Cardinality({r \in rec.rows :
                       r.lineItemId = item.admin_graphql_api_id /\ r.value = v})]],
     entries |-> [k \in DOMAIN rec.entries |-> rec.entries[k].value]]

----------------------------------------------------------------------------
(* C3 *)

\* C3 as stated: under every interleaving of two invocations for the same
\* order, no trigger line item has more records or more gift cards than its
\* quantity.
C3_NoDuplicates ==
    \A item \in Range(payload.line_items) :
        IsTrigger(item) =>
            /\ CardsOf(item) <= item.quantity
            /\ RowsOf(item) <= item.quantity
            /\ EntriesOf(item) <= item.quantity

\* C3 amended: when one of the two invocations finds the order processed at its
\* idempotency check, no trigger line item has more records or gift cards than
\* its quantity; when both pass the check, each issues at most the quantity.
C3_NoDuplicatesOnceSkipped ==
    \A item \in Range(payload.line_items) :
        IsTrigger(item) =>
            LET issuers == Cardinality({d \in Deliveries : calls[d] # <<>>}) IN
            /\ (\E d \in Deliveries : exit[d] = "duplicate") => issuers <= 1
            /\ CardsOf(item) <= issuers * item.quantity
            /\ RowsOf(item) <= issuers * item.quantity
            /\ EntriesOf(item) <= item.quantity

C3_Witness ==
    /\ overlapped /\ Done(1) /\ Done(2)
    /\ exit[2] = "duplicate" /\ exit[1] = "completed"
    /\ \E item \in Range(payload.line_items) :
          IsTrigger(item) /\ item.quantity = 2 /\ CardsOf(item) = 2

----------------------------------------------------------------------------
(* C4 *)

\* C4 as stated: whatever step of the webhook action throws, the response is
\* a success response.
C4_AlwaysSuccess ==
    \A d \in Deliveries : Done(d) => response[d] = "success"

\* C4 amended: whatever step of processGiftCardOrder throws and whatever the
\* outcome of the pipeline, the response is a success response; only a throw of
\* authenticate.webhook, which runs before the try block, leaves the action.
C4_SuccessOnceAuthenticated ==
    \A d \in Deliveries :
        Done(d) => (response[d] = "success" <=> exit[d] # "unauthenticated")

C4_Witness ==
    /\ Done(1) /\ exit[1] = "exception" /\ response[1] = "success"

----------------------------------------------------------------------------
(* C5 *)

\* C5: a failed creation call does not end the loops.  When the invocation has
\* run the loops, the calls made are the units of the matched line items in
\* order, whichever of them failed; every unit whose call returned a card is in
\* createdGiftCards, in call order; its database row exists unless that write
\* threw, and the metafield, when its write took effect, lists exactly these.
C5_FailureIsolation ==
    (Done(1) /\ exit[1] = "completed") =>
        LET returned == ReturnedCalls(1) IN
        /\ [k \in DOMAIN calls[1] |->
              [lineItemId |-> calls[1][k].lineItemId, unit |-> calls[1][k].unit]]
           = ExpectedUnits
        /\ [k \in DOMAIN inv[1].createdGiftCards |-> inv[1].createdGiftCards[k].giftCardId]
           = [k \in DOMAIN returned |-> returned[k].giftCardId]
        /\ variant = "db" =>
             /\ Len(RecordWrites(1)) = Len(returned)
             /\ {r.giftCardId : r \in giftCardRecord}
                = {returned[k].giftCardId : k \in {j \in DOMAIN returned : RecordWrites(1)[j].ok}}
        /\ (\E k \in DOMAIN writes[1] : writes[1][k] = [kind |-> "metafield", ok |-> TRUE]) =>
             [k \in DOMAIN orderMetafield.value |-> orderMetafield.value[k].giftCardId]
             = [k \in DOMAIN returned |-> returned[k].giftCardId]

\* the second of three calls failed; units 1 and 3 have their records
C5_Witness ==
    /\ Done(1) /\ exit[1] = "completed" /\ Len(calls[1]) = 3
    /\ calls[1][1].returned /\ ~calls[1][2].returned /\ calls[1][3].returned
    /\ calls[1][2].lineItemId = calls[1][1].lineItemId
    /\ calls[1][3].lineItemId # calls[1][1].lineItemId
    /\ variant = "db"
    /\ {r.giftCardId : r \in giftCardRecord} = {calls[1][1].giftCardId, calls[1][3].giftCardId}
    /\ Len(orderMetafield.value) = 2

----------------------------------------------------------------------------
(* C6 *)

\* C6: an invocation that passes the idempotency check and returns has made
\* exactly as many creation calls as the trigger-variant line items have units:
\* each call is for a trigger line item and no unit is called twice.
C6_OneCallPerUnit ==
    (Done(1) /\ Returned(1) /\ exit[1] # "duplicate") =>
        /\ Len(calls[1]) = TriggerQuantity
        /\ \A k \in DOMAIN calls[1] :
              /\ IsTrigger(LineItemOf(calls[1][k].lineItemId))
              /\ calls[1][k].unit < LineItemOf(calls[1][k].lineItemId).quantity
              /\ \A j \in DOMAIN calls[1] :
                    (calls[1][j].lineItemId = calls[1][k].lineItemId
                     /\ calls[1][j].unit = calls[1][k].unit) => j = k

\* line items [(A, 2), (B, 1)] with trigger set {A}: two calls, one of which failed
C6_Witness ==
    /\ Done(1) /\ exit[1] = "completed"
    /\ payload.line_items[1].quantity = 2 /\ payload.line_items[2].quantity = 1
    /\ TriggerVariants = {<<"gid://shopify/ProductVariant", "A">>}
    /\ Len(calls[1]) = 2 /\ ~calls[1][1].returned /\ calls[1][2].returned

----------------------------------------------------------------------------
(* C7 *)

\* the amount the claim gives: max(0, unitPrice - printedOverhead)
ClaimedValue(item) == Max(0, UnitPrice(item) - PrintedOverhead)

\* a stored value as a number: the database version stores the price string in
\* the metafield, the metafield version the toFixed(2) string
StoredValue(v) == IF variant = "db" THEN v[1] * 1000 + v[2] * 10 ELSE v

\* C7: the value of every creation call, of every created card and of every
\* record is max(0, unitPrice - printedOverhead) of its line item to two
\* decimals: a whole number of hundredths, not negative, and at most half a
\* hundredth from the exact amount; so it is the same for all units of the item.
\* (The database version has no overhead setting: its overhead is 0.)
C7_ValuePerUnit ==
    LET Right(v, lineItemId) ==
            /\ v >= 0
            /\ v % 10 = 0
            /\ v - ClaimedValue(LineItemOf(lineItemId)) \in -5..5
    IN
    /\ \A k \in DOMAIN calls[1] : Right(calls[1][k].initialValue, calls[1][k].lineItemId)
    /\ \A k \in DOMAIN giftCards : Right(giftCards[k].initialValue, giftCards[k].lineItemId)
    /\ \A r \in giftCardRecord : Right(r.value, r.lineItemId)
    /\ \A k \in DOMAIN orderMetafield.value :
          Right(StoredValue(orderMetafield.value[k].value),
                giftCards[orderMetafield.value[k].giftCardId].lineItemId)

\* overhead 3.00: two units at 25.00 get 22.00 each, the unit at 2.00 gets 0.00
C7_Witness ==
    /\ Done(1) /\ PrintedOverhead = 3000
    /\ [k \in DOMAIN orderMetafield.value |-> orderMetafield.value[k].value]
       = <<22000, 22000, 0>>

----------------------------------------------------------------------------
(* C8 *)

\* C8: an invocation whose idempotency check finds the order processed ends at
\* that step and changes nothing: no creation call, no database row, no
\* metafield and no note is written, by the step or before it.
C8_DuplicateHasNoSideEffects ==
    /\ [](\A d \in Deliveries :
            exit[d] = "duplicate" => Done(d) /\ calls[d] = <<>> /\ writes[d] = <<>>)
    /\ [][\A d \in Deliveries :
            (inv[d].pc = GuardLabel /\ inv'[d].pc # GuardLabel /\ Processed) =>
                /\ inv'[d].pc = "done"
                /\ calls'[d] = <<>> /\ writes'[d] = <<>>
                /\ UNCHANGED <<stores, config>>]_vars

C8_Witness ==
    /\ exit[2] = "duplicate" /\ Done(1) /\ Done(2)
    /\ Len(giftCards) = 2 /\ Len(orderMetafield.value) = 2

----------------------------------------------------------------------------
(* C9 *)

NoLineItemMatches == \A item \in Range(payload.line_items) : ~IsTrigger(item)

\* C9: with an empty trigger set, or no line item of a trigger variant, the
\* invocation makes no creation call and writes nothing, and when it has read
\* the configuration it returns (it does not throw).
C9_NothingToIssue ==
    (TriggerVariants = {} \/ NoLineItemMatches) =>
        /\ calls[1] = <<>> /\ writes[1] = <<>>
        /\ giftCards = <<>> /\ giftCardRecord = {}
        /\ ~orderMetafield.present /\ orderNote = <<>>
        /\ (Done(1) /\ ~Aborted(1)) =>
              /\ response[1] = "success"
              /\ exit[1] = IF TriggerVariants = {} THEN "no_variants" ELSE "no_match"

C9_Witness ==
    /\ Done(1) /\ exit[1] = "no_match" /\ TriggerVariants # {}

----------------------------------------------------------------------------
(* C10 *)

\* C10: a creation call carries the customer exactly when sendEmailNotification
\* is true and the order has a customer, and so does the created card; the
\* calls are one per matched unit whether or not the order has a customer.
C10_CustomerAssociation ==
    /\ \A k \in DOMAIN calls[1] :
          calls[1][k].customerId <=> (SendEmailNotification /\ payload.customer)
    /\ \A k \in DOMAIN giftCards :
          giftCards[k].customerId <=> (SendEmailNotification /\ payload.customer)
    /\ (Done(1) /\ exit[1] = "completed") => Len(calls[1]) = TriggerQuantity

\* a guest order with notifications on: three cards, none with a customer
C10_Witness ==
    /\ Done(1) /\ exit[1] = "completed"
    /\ ~payload.customer /\ SendEmailNotification
    /\ Len(calls[1]) = 3 /\ Len(giftCards) = 3
    /\ \A k \in DOMAIN giftCards : ~giftCards[k].customerId

----------------------------------------------------------------------------
(* C11 *)

\* a write of the delivery (database row or order annotation) failed
WriteFailed(d) == \E k \in DOMAIN writes[d] : ~writes[d][k].ok

\* the cards the creation calls of a delivery created at the platform
CreatedIds(d) ==
    {calls[d][k].giftCardId : k \in {j \in DOMAIN calls[d] : calls[d][j].giftCardId # 0}}

\* C11: a failed write of a database row or of the order annotation is not an
\* issuance failure.  The invocation still makes the calls of all units and
\* returns, and the action answers success; every card created is still at the
\* platform with its code and value, and no step ever removes or changes one;
\* the rows are those whose own write succeeded, a card whose row write failed
\* is still in createdGiftCards, and a failed annotation write leaves the
\* annotation as it was.
C11_WriteFailureIsNotIssuanceFailure ==
    /\ [](/\ (Done(1) /\ WriteFailed(1)) =>
               /\ exit[1] = "completed" /\ response[1] = "success"
               /\ [k \in DOMAIN calls[1] |->
                     [lineItemId |-> calls[1][k].lineItemId, unit |-> calls[1][k].unit]]
                  = ExpectedUnits
          /\ CreatedIds(1) = DOMAIN giftCards
          /\ \A k \in DOMAIN giftCards :
                giftCards[k].id = k /\ giftCards[k].code = GiftCardCode(k)
          /\ variant = "db" =>
                /\ CreatedIds(1) = {c.giftCardId : c \in Range(inv[1].createdGiftCards)}
                /\ Cardinality(giftCardRecord)
                   = Cardinality({k \in DOMAIN RecordWrites(1) : RecordWrites(1)[k].ok})
          /\ (\A k \in DOMAIN writes[1] : writes[1][k].kind = "metafield" => ~writes[1][k].ok)
                => ~orderMetafield.present)
    /\ [][/\ Len(giftCards') >= Len(giftCards)
          /\ \A k \in DOMAIN giftCards :
                /\ giftCards'[k].id = giftCards[k].id
                /\ giftCards'[k].code = giftCards[k].code
                /\ giftCards'[k].initialValue = giftCards[k].initialValue
          /\ giftCardRecord \subseteq giftCardRecord']_vars

\* three cards created; the row of the first and the annotation failed to be
\* written: three cards at the platform, two rows, no annotation
C11_Witness ==
    /\ variant = "db" /\ Done(1) /\ exit[1] = "completed" /\ response[1] = "success"
    /\ Len(giftCards) = 3 /\ Len(inv[1].createdGiftCards) = 3
    /\ writes[1] = <<[kind |-> "record", ok |-> FALSE], [kind |-> "record", ok |-> TRUE],
                     [kind |-> "record", ok |-> TRUE], [kind |-> "metafield", ok |-> FALSE]>>
    /\ Cardinality(giftCardRecord) = 2 /\ ~orderMetafield.present

----------------------------------------------------------------------------
(* C12 *)

\* database rows and annotation entries of the card with the given id
RowsOfCard(id) == Cardinality({r \in giftCardRecord : r.giftCardId = id})
EntriesOfCard(id) ==
    Cardinality({k \in DOMAIN orderMetafield.value : orderMetafield.value[k].giftCardId = id})

\* C12: when an invocation has finished and no annotation write of it failed,
\* every gift card created at the platform has a record (a database row or an
\* annotation entry), and no more than one of each kind: no card is left
\* without a record because a later step of its unit failed.
C12_ExactlyOneRecord ==
    (Done(1) /\ exit[1] = "completed"
     /\ \A k \in DOMAIN writes[1] : writes[1][k].kind = "metafield" => writes[1][k].ok) =>
        \A id \in DOMAIN giftCards :
            /\ RowsOfCard(id) <= 1
            /\ EntriesOfCard(id) <= 1
            /\ RowsOfCard(id) + EntriesOfCard(id) >= 1

----------------------------------------------------------------------------
(* C13 *)

\* C13: once a delivery has issued at least one but not all of the units of the
\* order, a later delivery of the order makes no creation call.
C13_PartialNeverRevisited ==
    (~overlapped /\ Done(1)
     /\ Len(ReturnedCalls(1)) >= 1 /\ Len(ReturnedCalls(1)) < TriggerQuantity) =>
        calls[2] = <<>>

----------------------------------------------------------------------------
(* C14 *)

\* the positions of a step in the trace of a delivery
StepsAt(d, label) == {k \in DOMAIN trace[d] : trace[d][k] = label}

\* C14: in every invocation the idempotency check runs at most once, and
\* exactly once when the invocation has got past it; every creation call of the
\* invocation comes after the check has completed.
C14_CheckBeforeCreate ==
    \A d \in Deliveries :
        /\ Cardinality(StepsAt(d, GuardLabel)) <= 1
        /\ Len(calls[d]) = Cardinality(StepsAt(d, "create"))
        /\ (calls[d] # <<>> \/ inv[d].pc \in {"create", "recordCreate", "giftCardUpdate",
                                             "setMetafield", "updateOrder"}
            \/ exit[d] \in {"duplicate", "no_variants", "no_match", "completed"}) =>
              /\ Cardinality(StepsAt(d, GuardLabel)) = 1
              /\ \A g \in StepsAt(d, GuardLabel), c \in StepsAt(d, "create") : g < c

\* both deliveries ran the check once; the first went on to make its calls
C14_Witness ==
    /\ Done(1) /\ Done(2) /\ Len(calls[1]) >= 2 /\ exit[2] = "duplicate"
    /\ \A d \in Deliveries : Cardinality(StepsAt(d, GuardLabel)) = 1

----------------------------------------------------------------------------
(* C15 *)

\* C15: the records of the order only grow.  No step removes or replaces a
\* database row, and every entry of the order's annotation list is still in the
\* list after the step, whichever delivery writes the annotation.
C15_RecordsOnlyGrow ==
    [][/\ giftCardRecord \subseteq giftCardRecord'
       /\ Range(orderMetafield.value) \subseteq Range(orderMetafield'.value)]_vars

----------------------------------------------------------------------------
(* C16 *)

\* C16: no step of the webhook pipeline changes the configuration of the shop:
\* the trigger variants and the settings, in the database and in the shop
\* metafield, are after every step what they were before it.
C16_ConfigurationUntouched ==
    [][UNCHANGED <<giftCardProduct, appSettings, shopMetafield>>]_vars

\* a run that issued all three units of an order with two trigger variants
C16_Witness ==
    /\ Done(1) /\ exit[1] = "completed"
    /\ Len(giftCards) = 3 /\ Cardinality(TriggerVariants) = 2

----------------------------------------------------------------------------
(* C17 *)

Started(d) == inv[d].pc # "idle"

\* C17 as stated: every invocation of the action whose calls all return or
\* throw eventually reaches the acknowledged state.
C17_EventuallyAcknowledged ==
    Started(1) ~> (response[1] = "success")

\* C17 amended: every invocation whose calls all return or throw eventually
\* ends, acknowledged unless authenticate.webhook threw; it makes at most as
\* many creation calls as the matched line items have units; and the action
\* answers when the invocation ends, after which no call, no write and no other
\* step of the invocation happens.
C17_EventuallyEnds ==
    /\ Started(1) ~> (Done(1) /\ (exit[1] # "unauthenticated" => response[1] = "success"))
    /\ [](/\ Len(calls[1]) <= TriggerQuantity
          /\ response[1] # "none" <=> Done(1))
    /\ [][response[1] # "none" => UNCHANGED vars]_vars

\* an invocation that issued three units and wrote the annotation last has been
\* acknowledged
C17_Witness ==
    /\ Done(1) /\ response[1] = "success" /\ Len(calls[1]) = 3 /\ TriggerQuantity = 3
    /\ writes[1] # <<>> /\ writes[1][Len(writes[1])] = [kind |-> "metafield", ok |-> TRUE]

----------------------------------------------------------------------------
(* C18 *)

\* the step that follows the creation of a card within its unit
RecordingLabel == IF variant = "db" THEN "recordCreate" ELSE "giftCardUpdate"

\* the k-th step with the given label of the delivery, as a position of its trace
RECURSIVE NthStep(_, _, _)
NthStep(d, label, k) ==
    LET drop == IF k = 1 THEN 0 ELSE NthStep(d, label, k - 1)
        rest == {q \in StepsAt(d, label) : q > drop}
    IN  CHOOSE p \in rest : \A q \in rest : p <= q

\* C18: the creation calls of an invocation are made one at a time, in payload
\* line-item order and unit by unit; the recording step of a unit (when a card
\* was created) comes right after its call and before the call of the next
\* unit; createdGiftCards and the annotation hold the results in call order.
C18_SequentialInOrder ==
    /\ Len(calls[1]) <= Len(ExpectedUnits)
    /\ \A k \in DOMAIN calls[1] :
          /\ calls[1][k].lineItemId = ExpectedUnits[k].lineItemId
          /\ calls[1][k].unit = ExpectedUnits[k].unit
          /\ LET p == NthStep(1, "create", k) IN
             p < Len(trace[1]) =>
                (trace[1][p + 1] = RecordingLabel <=> calls[1][k].giftCardId # 0)
    /\ \A p \in StepsAt(1, RecordingLabel) : p > 1 /\ trace[1][p - 1] = "create"
    /\ [k \in DOMAIN inv[1].createdGiftCards |-> inv[1].createdGiftCards[k].giftCardId]
       = [k \in DOMAIN ReturnedCalls(1) |-> ReturnedCalls(1)[k].giftCardId]
    /\ orderMetafield.present =>
         [k \in DOMAIN orderMetafield.value |-> orderMetafield.value[k].giftCardId]
         = [k \in DOMAIN ReturnedCalls(1) |-> ReturnedCalls(1)[k].giftCardId]

\* three units issued in order: two of the first line item, one of the second
C18_Witness ==
    /\ Done(1) /\ Len(calls[1]) = 3
    /\ [k \in DOMAIN calls[1] |-> calls[1][k].unit] = <<0, 1, 0>>
    /\ [k \in DOMAIN inv[1].createdGiftCards |-> inv[1].createdGiftCards[k].giftCardId]
       = <<1, 2, 3>>
    /\ [k \in DOMAIN orderMetafield.value |-> orderMetafield.value[k].giftCardId] = <<1, 2, 3>>

----------------------------------------------------------------------------
(* C19 *)

\* the records hold the code as the creation call returned it
RecordsHoldReturnedCode ==
    /\ \A r \in giftCardRecord : r.giftCardCode = giftCards[r.giftCardId].code
    /\ \A k \in DOMAIN orderMetafield.value :
          orderMetafield.value[k].code = giftCards[orderMetafield.value[k].giftCardId].code
    /\ \A c \in Range(inv[1].createdGiftCards) : c.code = giftCards[c.giftCardId].code

\* the formatted form of a code differs from the code (it has upper-case
\* letters and a space after every fourth character)
FormattingShows == \A k \in DOMAIN giftCards :
    formatGiftCardCode(giftCards[k].code) # giftCards[k].code

\* C19 as stated: every code the pipeline stores or writes back to the platform
\* is the code the creation call returned; the grouped, upper-cased form is
\* never stored.
C19_FormattedCodeNeverStored ==
    /\ RecordsHoldReturnedCode
    /\ \A k \in DOMAIN giftCards :
          giftCards[k].fullNote # formatGiftCardCode(giftCards[k].code)
    /\ \A k \in DOMAIN orderNote :
          orderNote[k].formattedCode # formatGiftCardCode(giftCards[orderNote[k].giftCardId].code)

\* C19 amended: the database field giftCardCode and the annotation field code
\* are exactly the code the creation call returned, never its formatted form;
\* the formatted form is what the metafield version writes into the free-text
\* notes: the note of the gift card and the gift card section of the order note.
C19_RecordsHoldRawCode ==
    /\ RecordsHoldReturnedCode
    /\ FormattingShows
    /\ \A k \in DOMAIN giftCards :
          giftCards[k].fullNote \in {<<>>, formatGiftCardCode(giftCards[k].code)}
    /\ \A k \in DOMAIN orderNote :
          orderNote[k].formattedCode = formatGiftCardCode(giftCards[orderNote[k].giftCardId].code)
    /\ variant = "db" =>
          /\ orderNote = <<>>
          /\ \A k \in DOMAIN giftCards : giftCards[k].fullNote = <<>>

\* the metafield version has stored two raw codes in the annotation and their
\* formatted forms in the notes of the cards and of the order
C19_Witness ==
    /\ Done(1) /\ variant = "mf" /\ Len(orderMetafield.value) = 2 /\ Len(orderNote) = 2
    /\ orderMetafield.value[2].code = <<"a", "b", "1", "2", "c", "d", "3", "2">>
    /\ orderNote[2].formattedCode = <<"A", "B", "1", "2", " ", "C", "D", "3", "2">>
    /\ giftCards[2].fullNote = orderNote[2].formattedCode

----------------------------------------------------------------------------
(* C20 *)

\* printedAt as the requests leave it: null on a record no request has reached
\* and after unmarkPrinted, a timestamp after markPrinted
PrintedAtFollowsRequests ==
    \A r \in giftCardRecord :
        /\ markLog[r.id].intent = "none" => r.printedAt = <<>>
        /\ markLog[r.id].intent = "markPrinted" => r.printedAt \in {<<date>> : date \in Dates}
        /\ markLog[r.id].intent \in {"unmarkPrinted", "markPrinted, unmarkPrinted"} =>
              r.printedAt = <<>>

\* C20 as stated: printedAt is null when the record is created, markPrinted
\* sets a timestamp, unmarkPrinted sets null, and after markPrinted followed by
\* unmarkPrinted the record is in the state it had before the mark.
C20_MarkUnmarkRestores ==
    /\ PrintedAtFollowsRequests
    /\ \A r \in giftCardRecord :
          markLog[r.id].intent = "markPrinted, unmarkPrinted" => markLog[r.id].before = {r}

\* C20 amended: printedAt is null when the record is created, markPrinted sets
\* a timestamp, unmarkPrinted sets null; after markPrinted followed by
\* unmarkPrinted the record is as before the mark except that printedAt is
\* null, so it is in the state before the mark when it was not marked then.
C20_MarkUnmarkClears ==
    /\ PrintedAtFollowsRequests
    /\ \A r \in giftCardRecord :
          markLog[r.id].intent = "markPrinted, unmarkPrinted" =>
              /\ {[b EXCEPT !.printedAt = <<>>] : b \in markLog[r.id].before} = {r}
              /\ (\A b \in markLog[r.id].before : b.printedAt = <<>>) =>
                    markLog[r.id].before = {r}

\* a record marked and then unmarked is as it was created, beside a record
\* that is still marked
C20_Witness ==
    \E r, s \in giftCardRecord :
        /\ markLog[r.id].intent = "markPrinted, unmarkPrinted"
        /\ markLog[r.id].before = {r} /\ r.printedAt = <<>>
        /\ markLog[s.id].intent = "markPrinted" /\ s.printedAt = <<2>>

----------------------------------------------------------------------------
(* C21 *)

\* the fields of a record that are fixed at creation
Frozen(r) ==
    [id |-> r.id, shop |-> r.shop, orderId |-> r.orderId, lineItemId |-> r.lineItemId,
     giftCardId |-> r.giftCardId, giftCardCode |-> r.giftCardCode, value |-> r.value]

\* C21: once a record is created no step changes its value, giftCardCode,
\* giftCardId, orderId or lineItemId: not markPrinted or unmarkPrinted (which
\* change printedAt only and add or remove no record), not a redelivered
\* webhook, and not a load of the orders page while the platform reports a
\* lower balance (the page shows the stored value beside that balance).
C21_FieldsFixedAtCreation ==
    [][/\ \A r \in giftCardRecord :
             \E q \in giftCardRecord' : Frozen(q) = Frozen(r)
       /\ inv' = inv =>
             /\ {r.id : r \in giftCardRecord'} = {r.id : r \in giftCardRecord}
             /\ \A r \in giftCardRecord :
                   \E q \in giftCardRecord' : q = [r EXCEPT !.printedAt = q.printedAt]
       /\ view' # view =>
             /\ giftCardRecord' = giftCardRecord
             /\ \A k \in DOMAIN view'.orders : \A j \in DOMAIN view'.orders[k].giftCards :
                   LET e == view'.orders[k].giftCards[j] IN
                   \E r \in giftCardRecord : r.id = e.id /\ r.value = e.value
      ]_vars

\* a record that was marked printed, after the redelivery found it and ended
\* as a duplicate, shown on the orders page with a balance below its value
C21_Witness ==
    /\ exit[2] = "duplicate"
    /\ \E r \in giftCardRecord :
          /\ r.printedAt # <<>> /\ r.value = 25000
          /\ markLog[r.id].intent = "markPrinted"
          /\ view.loader = "db" /\ Len(view.orders) = 1
          /\ view.orders[1].giftCards[1].id = r.id
          /\ view.orders[1].giftCards[1].value = 25000
          /\ view.orders[1].giftCards[1].currentBalance < 25000

----------------------------------------------------------------------------
(* C22 *)

\* the sequence holds no element twice
NoDuplicates(s) == \A j, k \in DOMAIN s : s[j] = s[k] => j = k

\* the settings request whose write is taking effect in this step
Saving(r) ==
    /\ settingsReq[r].pc = "metafieldsSet"
    /\ settingsReq'[r].pc = "idle"
    /\ shopMetafield' # shopMetafield

\* the trigger set after a settings action on the set T
TriggersAfter(T, intent, formData) ==
    CASE intent = "addProducts" -> T \cup Range(formData.variantIds)
      [] intent \in {"removeVariant", "removeProduct"} -> T \ Range(formData.variantIds)
      [] OTHER -> T

\* C22: over any sequence of settings actions the stored trigger list holds no
\* variant identifier twice, and the trigger set changes only by a settings
\* action that takes effect: addProducts adds the submitted variants,
\* removeVariant and removeProduct remove the submitted ones, so a variant is a
\* trigger exactly when it was added and not removed since.
C22_TriggerSetFollowsActions ==
    [][/\ NoDuplicates(shopMetafield'.value.variantIds)
       /\ TriggerVariants' # TriggerVariants => shopMetafield' # shopMetafield
       /\ shopMetafield' # shopMetafield =>
             /\ Saving(1)
             /\ TriggerVariants' = TriggersAfter(TriggerVariants, settingsReq[1].intent,
                                                 settingsReq[1].formData)
      ]_vars

\* B was added first and A after it; a removeProduct of both is about to be
\* saved
C22_Witness ==
    /\ shopMetafield.present
    /\ shopMetafield.value.variantIds = <<VariantGid("B"), VariantGid("A")>>
    /\ settingsReq[1].pc = "metafieldsSet"
    /\ settingsReq[1].intent = "removeProduct"
    /\ settingsReq[1].formData.variantIds = <<VariantGid("A"), VariantGid("B")>>
    /\ settingsReq[1].settings.variantIds = <<>>

----------------------------------------------------------------------------
(* C23 *)

\* C23: after any sequence of updateOverhead actions, whatever text was
\* submitted, the stored printedOverhead is a number and not negative, and
\* the value of every gift card the pipeline creates is at least zero and at
\* most the unit price of its line item.
C23_OverheadIsNonNegativeNumber ==
    /\ shopMetafield.present =>
          /\ shopMetafield.value.printedOverhead.kind = "number"
          /\ shopMetafield.value.printedOverhead.n >= 0
    /\ \A k \in DOMAIN giftCards :
          /\ giftCards[k].initialValue >= 0
          /\ giftCards[k].initialValue <= UnitPrice(LineItemOf(giftCards[k].lineItemId))

----------------------------------------------------------------------------
(* C24 *)

\* the records the listing of the session's shop is made of
ShopRecords == {r \in giftCardRecord : r.shop = view.shop}

\* createdAt of the most recent record of an order of the shop
MostRecent(orderId) ==
    CHOOSE at \in {r.createdAt : r \in ShopRecords} :
        /\ \E r \in ShopRecords : r.orderId = orderId /\ r.createdAt = at
        /\ \A r \in ShopRecords : r.orderId = orderId => r.createdAt <= at

\* the order ids of the pages shown since the first page, in the order shown
RECURSIVE Flatten(_)
Flatten(pages) == IF Len(pages) = 0 THEN <<>> ELSE Head(pages) \o Flatten(Tail(pages))

\* the places of a record on the page
PlacesOf(r) ==
    {<<k, j>> \in (DOMAIN view.orders) \X (1..Cardinality(giftCardRecord)) :
        j \in DOMAIN view.orders[k].giftCards /\ view.orders[k].giftCards[j].id = r.id}

\* C24: the orders listing of a shop groups the shop's records by order: every
\* group holds records of the shop with the group's orderId, no order has two
\* groups, every record of a listed order (every record of the shop, when the
\* listing fits on one page) is in exactly one group; and the groups come by
\* recency, a group whose most recent record is newer before one whose most
\* recent record is older, across the pages shown.
C24_GroupedByOrderNewestFirst ==
    view.loader = "db" =>
      /\ \A k \in DOMAIN view.orders : \A j \in DOMAIN view.orders[k].giftCards :
            \E r \in ShopRecords :
                r.id = view.orders[k].giftCards[j].id /\ r.orderId = view.orders[k].orderId
      /\ NoDuplicates(Flatten(view.shown))
      /\ \A r \in ShopRecords :
            (\E k \in DOMAIN view.orders : view.orders[k].orderId = r.orderId)
               => Cardinality(PlacesOf(r)) = 1
      /\ (Len(view.shown) = 1 /\ ~view.hasNextPage) =>
            \A r \in ShopRecords : Cardinality(PlacesOf(r)) = 1
      /\ \A a, b \in DOMAIN Flatten(view.shown) :
            a < b => MostRecent(Flatten(view.shown)[a]) > MostRecent(Flatten(view.shown)[b])

\* two groups: the first has a record newer and a record older than the
\* record of the second
C24_Witness ==
    /\ view.loader = "db" /\ Len(view.orders) = 2
    /\ Len(view.orders[1].giftCards) = 2 /\ Len(view.orders[2].giftCards) = 1
    /\ view.orders[1].giftCards[1].createdAt > view.orders[2].giftCards[1].createdAt
    /\ view.orders[1].giftCards[2].createdAt < view.orders[2].giftCards[1].createdAt

----------------------------------------------------------------------------
(* C27 *)

\* the orders that have gift cards, for the loader that made the page
OrdersWithGiftCards ==
    IF view.loader = "db" THEN {r.orderId : r \in ShopRecords}
    ELSE {platformOrders[k].id : k \in {j \in DOMAIN platformOrders :
                                           platformOrders[j].metafield.present}}

\* C27: no page holds more than 10 orders, and once the paging from the first
\* page has reached a page whose Next control is disabled, every order that
\* has gift cards was shown on exactly one of the pages, with either loader.
C27_PagingShowsEveryOrderOnce ==
    view.loader # "none" =>
      /\ \A p \in DOMAIN view.shown : Len(view.shown[p]) <= ORDERS_PER_PAGE
      /\ ~view.hasNextPage =>
            \A o \in OrdersWithGiftCards :
                Cardinality({k \in DOMAIN Flatten(view.shown) :
                                Flatten(view.shown)[k] = o}) = 1

----------------------------------------------------------------------------
(* C25 *)

\* C25: for a shop that has stored no settings (no appSettings row; no settings
\* metafield beyond what adding products writes) the pipeline behaves as with
\* sendEmailNotification = true and printedOverhead = 0: every creation call
\* carries the customer when the order has one, and its value is the unit
\* price of its line item.
C25_DefaultsApply ==
    \A k \in DOMAIN calls[1] :
        /\ calls[1][k].customerId <=> payload.customer
        /\ calls[1][k].initialValue = UnitPrice(LineItemOf(calls[1][k].lineItemId))

\* the metafield version has issued a card for the order of a known customer:
\* the call carried the customer and the full price
C25_Witness ==
    /\ variant = "mf" /\ Done(1) /\ exit[1] = "completed"
    /\ payload.customer
    /\ Len(calls[1]) = 1 /\ calls[1][1].returned
    /\ calls[1][1].customerId /\ calls[1][1].initialValue = 25000
    /\ giftCards[1].customerId /\ giftCards[1].initialValue = 25000

----------------------------------------------------------------------------
(* C26 *)

\* the invocation ran the loops to the end and every creation call failed
EveryCallFailed(d) ==
    /\ Done(d) /\ exit[d] = "completed"
    /\ Len(calls[d]) > 0
    /\ \A k \in DOMAIN calls[d] : ~calls[d][k].returned

\* C26: an invocation whose creation calls all failed makes no write and
\* leaves no database row and no annotation for the order, so the order does
\* not count as processed; the next delivery does not end as a duplicate, and
\* when it runs its loops it makes one creation call for every matched unit.
C26_NothingRecordedThenRetried ==
    (EveryCallFailed(1) /\ ~overlapped) =>
        /\ writes[1] = <<>>
        /\ recAfter[1] = Records({}, NoMetafield)
        /\ inv[2].pc = "idle" => ~Processed
        /\ Done(2) => exit[2] # "duplicate"
        /\ (Done(2) /\ exit[2] = "completed") =>
              [k \in DOMAIN calls[2] |->
                  [lineItemId |-> calls[2][k].lineItemId, unit |-> calls[2][k].unit]]
                 = ExpectedUnits

\* two units, both calls of the first delivery failed, and the later delivery
\* called for both units again and created the cards
C26_Witness ==
    /\ EveryCallFailed(1) /\ ~overlapped /\ Len(calls[1]) = 2
    /\ Done(2) /\ exit[2] = "completed"
    /\ Len(calls[2]) = 2 /\ calls[2][1].returned /\ calls[2][2].returned
    /\ Len(giftCards) = 2

----------------------------------------------------------------------------
(* C28 *)

\* C28: in the database version, when an invocation that created at least one
\* gift card has finished, the gift cards listed in the order's created_codes
\* annotation are exactly the gift cards that have a database record for the
\* order.
C28_AnnotationMatchesRecords ==
    (variant = "db" /\ Done(1) /\ exit[1] = "completed" /\ Len(ReturnedCalls(1)) > 0) =>
        {orderMetafield.value[k].giftCardId : k \in DOMAIN orderMetafield.value}
          = {r.giftCardId : r \in {q \in giftCardRecord :
                                      q.shop = Shop /\ q.orderId = payload.admin_graphql_api_id}}

----------------------------------------------------------------------------
(* C29 *)

\* the parts of the shop settings
Parts == {"variantIds", "sendEmailNotification", "printedOverhead"}

\* C29: a settings action whose save takes effect changes only the part of
\* the stored settings its intent names: the other parts stay as last stored,
\* and the variant list becomes the stored one plus or minus the submitted
\* variants, also when another settings action of the shop overlaps.
C29_OnlyTheNamedPartChanges ==
    [][\A r \in SettingsRequests :
          Saving(r) =>
            /\ \A part \in Parts \ {PartOf(settingsReq[r].intent)} :
                  shopMetafield'.value[part] = GetShopSettings(shopMetafield)[part]
            /\ TriggerVariants' = TriggersAfter(TriggerVariants, settingsReq[r].intent,
                                                settingsReq[r].formData)
      ]_vars

----------------------------------------------------------------------------
(* C30 *)

\* C30: issuance records are isolated per shop.  A markPrinted or
\* unmarkPrinted request reaches, and changes printedAt of, records of its
\* session's shop only; the orders loader returns records of the session's
\* shop only; and the idempotency check of a delivery ends the invocation as a
\* duplicate only when a record of the delivery's own shop exists for the
\* order, whatever records another shop has for an order of the same id.
C30_IsolatedPerShop ==
    /\ [](\A r \in giftCardRecord :
             markLog[r.id].intent # "none" => markLog[r.id].shop = r.shop)
    /\ [][\A r \in giftCardRecord : \A q \in giftCardRecord' :
             (q.id = r.id /\ q # r) => markLog'[r.id].shop = r.shop]_vars
    /\ [](view.loader = "db" =>
             \A k \in DOMAIN view.orders : \A j \in DOMAIN view.orders[k].giftCards :
                 \E r \in giftCardRecord :
                     r.id = view.orders[k].giftCards[j].id /\ r.shop = view.shop)
    /\ [][\A d \in Deliveries :
             (inv[d].pc = "findFirst" /\ exit'[d] = "duplicate") =>
                 \E r \in giftCardRecord :
                     r.shop = Shop /\ r.orderId = payload.admin_graphql_api_id]_vars

\* both shops have a record for an order of the same id: the delivery to
\* shop-1 passed the check and wrote its record, which shop-1 has marked
\* printed; the page of shop-2 shows the record of shop-2 only, never marked
C30_Witness ==
    /\ Done(1) /\ exit[1] = "completed"
    /\ \E r, q \in giftCardRecord :
          /\ r.shop = Shop /\ q.shop = OtherShop /\ r.orderId = q.orderId
          /\ r.printedAt # <<>> /\ markLog[r.id].shop = Shop
          /\ q.printedAt = <<>> /\ markLog[q.id].intent = "none"
          /\ view.loader = "db" /\ view.shop = OtherShop
          /\ Len(view.orders) = 1 /\ Len(view.orders[1].giftCards) = 1
          /\ view.orders[1].giftCards[1].id = q.id

====
